---- MODULE Spec2Model ----
(***************************************************************************)
(* A model of go-env: the type-directed string parser (DefaultParser) and  *)
(* the struct-tag-driven unmarshaller (DefaultEnvMarshaler).               *)
(*                                                                         *)
(* Environment values are Go strings, modelled as sequences of one-        *)
(* character strings so that trimming, splitting and digit parsing are     *)
(* computed as the code computes them.  Environment keys, tags and type    *)
(* names are never parsed by the code, only concatenated and compared;     *)
(* they are TLA+ strings.                                                  *)
(***************************************************************************)
EXTENDS Integers, Sequences, FiniteSets, TLC

\* The largest number of keys of an environment that deviate (absent, or
\* another sample value) from the all-valid environment of the target type.
MaxFaults == 2

(***************************************************************************)
(* Strings                                                                 *)
(***************************************************************************)

\* The content of a Go string as one TLA+ string (for %s in messages).
RECURSIVE Join(_)
Join(s) == IF s = << >> THEN "" ELSE Head(s) \o Join(Tail(s))

Digits == <<"0", "1", "2", "3", "4", "5", "6", "7", "8", "9">>

IsDigit(c) == \E i \in 1..10 : Digits[i] = c

DigitVal(c) == (CHOOSE i \in 1..10 : Digits[i] = c) - 1

\* unicode.IsSpace on the characters of the model's alphabet.
IsSpace(c) == c \in {" ", "\t", "\n", "\r"}

RECURSIVE TrimLeft(_)
TrimLeft(s) == IF s # << >> /\ IsSpace(Head(s)) THEN TrimLeft(Tail(s)) ELSE s

RECURSIVE TrimRight(_)
TrimRight(s) ==
    IF s # << >> /\ IsSpace(s[Len(s)])
    THEN TrimRight(SubSeq(s, 1, Len(s) - 1))
    ELSE s

\* strings.TrimSpace
TrimSpace(s) == TrimRight(TrimLeft(s))

Upper == <<"A", "B", "C", "D", "E", "F", "G", "H", "I", "J", "K", "L", "M",
           "N", "O", "P", "Q", "R", "S", "T", "U", "V", "W", "X", "Y", "Z">>

Lower == <<"a", "b", "c", "d", "e", "f", "g", "h", "i", "j", "k", "l", "m",
           "n", "o", "p", "q", "r", "s", "t", "u", "v", "w", "x", "y", "z">>

LowerChar(c) ==
    IF \E i \in 1..26 : Upper[i] = c
    THEN Lower[CHOOSE i \in 1..26 : Upper[i] = c]
    ELSE c

\* A ToLower that leaves the string as it is.
ToLower_AsIs(s) == s

\* strings.ToLower
ToLower(s) == [i \in 1..Len(s) |-> LowerChar(s[i])]

\* strings.Split(s, ","): the parts between the commas, Count(",") + 1 of them.
RECURSIVE SplitFrom(_, _)
SplitFrom(s, cur) ==
    IF s = << >> THEN <<cur>>
    ELSE IF Head(s) = "," THEN <<cur>> \o SplitFrom(Tail(s), << >>)
    ELSE SplitFrom(Tail(s), Append(cur, Head(s)))

IsPart(part) == part # << >>

\* A split that leaves out the empty parts, as strings.FieldsFunc does.
Split_NoEmptyParts(s) == SelectSeq(SplitFrom(s, << >>), IsPart)

Split(s) == SplitFrom(s, << >>)

(***************************************************************************)
(* strconv                                                                 *)
(***************************************************************************)

RECURSIVE StripZeros(_)
StripZeros(s) ==
    IF Len(s) > 1 /\ Head(s) = "0" THEN StripZeros(Tail(s)) ELSE s

RECURSIVE LexLeq(_, _)
LexLeq(a, b) ==
    IF a = << >> THEN TRUE
    ELSE IF DigitVal(Head(a)) # DigitVal(Head(b))
    THEN DigitVal(Head(a)) < DigitVal(Head(b))
    ELSE LexLeq(Tail(a), Tail(b))

\* a <= b for two strings of decimal digits, whatever their size.
CanonLeq(x, y) == Len(x) < Len(y) \/ (Len(x) = Len(y) /\ LexLeq(x, y))

DecLeq(a, b) == CanonLeq(StripZeros(a), StripZeros(b))

\* 1<<64 - 1, 1<<63 - 1 and 1<<63 in decimal.
MaxUint64Str == <<"1", "8", "4", "4", "6", "7", "4", "4", "0", "7",
                  "3", "7", "0", "9", "5", "5", "1", "6", "1", "5">>
MaxInt64Str == <<"9", "2", "2", "3", "3", "7", "2", "0", "3", "6",
                 "8", "5", "4", "7", "7", "5", "8", "0", "7">>
MinInt64Str == <<"9", "2", "2", "3", "3", "7", "2", "0", "3", "6",
                 "8", "5", "4", "7", "7", "5", "8", "0", "8">>

RECURSIVE DecValue(_, _)
DecValue(s, acc) ==
    IF s = << >> THEN acc ELSE DecValue(Tail(s), acc * 10 + DigitVal(Head(s)))

\* A uint64 or an int64 of at most nine decimal digits is a number; a larger
\* one is held as its sign and its decimal digits, [neg, dec].
IntOf(neg, dec) ==
    IF Len(dec) > 9 THEN [neg |-> neg, dec |-> dec]
    ELSE IF neg THEN 0 - DecValue(dec, 0)
    ELSE DecValue(dec, 0)

NoInt(why) == [ok |-> FALSE, n |-> 0, neg |-> FALSE, dec |-> <<"0">>, why |-> why]

AnInt(neg, dec) ==
    [ok |-> TRUE, n |-> IntOf(neg, dec), neg |-> neg /\ dec # <<"0">>,
     dec |-> dec, why |-> ""]

\* strconv.ParseUint(s, 10, 64): no sign, no underscore, digits only.
ParseUint(s) ==
    IF s = << >> THEN NoInt("invalid syntax")
    ELSE IF \E i \in 1..Len(s) : ~IsDigit(s[i]) THEN NoInt("invalid syntax")
    ELSE IF ~DecLeq(s, MaxUint64Str) THEN NoInt("value out of range")
    ELSE AnInt(FALSE, StripZeros(s))

\* strconv.ParseInt(s, 10, 64): an optional sign, then ParseUint's digits.
ParseSigned(neg, body) ==
    IF body = << >> \/ \E i \in 1..Len(body) : ~IsDigit(body[i])
    THEN NoInt("invalid syntax")
    ELSE IF ~DecLeq(body, IF neg THEN MinInt64Str ELSE MaxInt64Str)
    THEN NoInt("value out of range")
    ELSE AnInt(neg, StripZeros(body))

ParseInt(s) ==
    IF s = << >> THEN NoInt("invalid syntax")
    ELSE ParseSigned(Head(s) = "-",
                     IF Head(s) \in {"+", "-"} THEN Tail(s) ELSE s)

\* strconv.ParseBool
ParseBool(s) ==
    IF s \in {<<"1">>, <<"t">>, <<"T">>, <<"T", "R", "U", "E">>,
              <<"t", "r", "u", "e">>, <<"T", "r", "u", "e">>}
    THEN [ok |-> TRUE, b |-> TRUE]
    ELSE IF s \in {<<"0">>, <<"f">>, <<"F">>, <<"F", "A", "L", "S", "E">>,
                   <<"f", "a", "l", "s", "e">>, <<"F", "a", "l", "s", "e">>}
    THEN [ok |-> TRUE, b |-> FALSE]
    ELSE [ok |-> FALSE, b |-> FALSE]

\* A float64 as the decimal it was read from: the digits before and after
\* the point, without the zeros that do not count.
Float(neg, int, frac) ==
    [neg |-> neg, int |-> int, frac |-> frac, inf |-> FALSE, nan |-> FALSE]

ZeroFloat == Float(FALSE, <<"0">>, << >>)

Inf(neg) == [ZeroFloat EXCEPT !.neg = neg, !.inf = TRUE]

NaN == [ZeroFloat EXCEPT !.nan = TRUE]

RECURSIVE StripZerosRight(_)
StripZerosRight(s) ==
    IF s # << >> /\ s[Len(s)] = "0"
    THEN StripZerosRight(SubSeq(s, 1, Len(s) - 1))
    ELSE s

\* The place of the point in a decimal, past its end when it has none.
PointOf(body) ==
    IF \E i \in 1..Len(body) : body[i] = "."
    THEN CHOOSE i \in 1..Len(body) : body[i] = "."
    ELSE Len(body) + 1

IsDecimal(body) ==
    /\ \A i \in 1..Len(body) : IsDigit(body[i]) \/ i = PointOf(body)
    /\ \E i \in 1..Len(body) : IsDigit(body[i])

NoFloat(why) == [ok |-> FALSE, f |-> ZeroFloat, why |-> why]

AFloat(f) == [ok |-> TRUE, f |-> f, why |-> ""]

ParseDecimal(neg, body, p) ==
    IF ~IsDecimal(body) THEN NoFloat("invalid syntax")
    ELSE AFloat(Float(neg,
                      StripZeros(<<"0">> \o SubSeq(body, 1, p - 1)),
                      StripZerosRight(SubSeq(body, p + 1, Len(body)))))

\* strconv.ParseFloat(s, 64) on the decimals without exponent and on the
\* special words: an optional sign, then digits with at most one point, or
\* inf or infinity; nan without a sign.  Exponents, hexadecimal forms and
\* decimals beyond the range of float64 are not among the strings parsed.
ParseFloatBody(s, neg, body) ==
    IF ToLower(body) \in {<<"i", "n", "f">>,
                          <<"i", "n", "f", "i", "n", "i", "t", "y">>}
    THEN AFloat(Inf(neg))
    ELSE IF ToLower(s) = <<"n", "a", "n">> THEN AFloat(NaN)
    ELSE ParseDecimal(neg, body, PointOf(body))

ParseFloat(s) ==
    ParseFloatBody(s, s # << >> /\ Head(s) = "-",
                   IF s # << >> /\ Head(s) \in {"-", "+"} THEN Tail(s) ELSE s)

\* math.MaxFloat32 in decimal.
MaxFloat32Str ==
    <<"3", "4", "0", "2", "8", "2", "3", "4", "6", "6", "3", "8", "5", "2",
      "8", "8", "5", "9", "8", "1", "1", "7", "0", "4", "1", "8", "3", "4",
      "8", "4", "5", "1", "6", "9", "2", "5", "4", "4", "0">>

\* reflect.Value.OverflowFloat: a finite value beyond math.MaxFloat32 does
\* not fit a float32 (the whole part of the decimal is compared as written,
\* before it is rounded to a float64).
OverflowFloat(f, bits) ==
    /\ bits = 32
    /\ ~f.inf
    /\ ~f.nan
    /\ ~CanonLeq(f.int, MaxFloat32Str)

RECURSIVE Pow(_, _)
Pow(b, e) == IF e = 0 THEN 1 ELSE b * Pow(b, e - 1)

\* 1<<bits - 1, 1<<(bits-1) - 1 and 1<<(bits-1) in decimal.
MaxUintStr(bits) ==
    IF bits = 8 THEN <<"2", "5", "5">>
    ELSE IF bits = 16 THEN <<"6", "5", "5", "3", "5">>
    ELSE IF bits = 32
    THEN <<"4", "2", "9", "4", "9", "6", "7", "2", "9", "5">>
    ELSE MaxUint64Str

MaxIntStr(bits) ==
    IF bits = 8 THEN <<"1", "2", "7">>
    ELSE IF bits = 16 THEN <<"3", "2", "7", "6", "7">>
    ELSE IF bits = 32
    THEN <<"2", "1", "4", "7", "4", "8", "3", "6", "4", "7">>
    ELSE MaxInt64Str

MinIntStr(bits) ==
    IF bits = 8 THEN <<"1", "2", "8">>
    ELSE IF bits = 16 THEN <<"3", "2", "7", "6", "8">>
    ELSE IF bits = 32
    THEN <<"2", "1", "4", "7", "4", "8", "3", "6", "4", "8">>
    ELSE MinInt64Str

\* An OverflowUint that lets every uint64 through, and an OverflowInt that
\* takes the bound of the unsigned type.
OverflowUint_Never(u, bits) == FALSE

OverflowInt_Unsigned(n, bits) == ~CanonLeq(n.dec, MaxUintStr(bits))

\* reflect.Value.OverflowUint / OverflowInt for a value of `bits` bits: x
\* is not what is left of it after a cut to that width.
OverflowUint(u, bits) == ~CanonLeq(u.dec, MaxUintStr(bits))

OverflowInt(n, bits) ==
    ~CanonLeq(n.dec, IF n.neg THEN MinIntStr(bits) ELSE MaxIntStr(bits))

\* %d of a uint64 or an int64
FormatInt(n) == (IF n.neg THEN "-" ELSE "") \o Join(n.dec)

(***************************************************************************)
(* time.ParseDuration                                                      *)
(*                                                                         *)
(* A Duration is an int64 count of nanoseconds.  The count is held as      *)
(* whole seconds and the nanoseconds below a second, with the sign apart:  *)
(* [neg, sec, ns] stands for (neg ? -1 : 1) * (sec * 10^9 + ns).           *)
(***************************************************************************)

ZeroDuration == [neg |-> FALSE, sec |-> 0, ns |-> 0]

\* unitMap, for the units written in ASCII: the size of one unit, as whole
\* seconds or as nanoseconds below a second, and 1<<63 / unit where a count
\* the model can hold may exceed it.
UnitMap ==
    <<[u |-> <<"n", "s">>, sec |-> 0,    ns |-> 1,       max |-> 0],
      [u |-> <<"u", "s">>, sec |-> 0,    ns |-> 1000,    max |-> 0],
      [u |-> <<"m", "s">>, sec |-> 0,    ns |-> 1000000, max |-> 0],
      [u |-> <<"s">>,      sec |-> 1,    ns |-> 0,       max |-> 0],
      [u |-> <<"m">>,      sec |-> 60,   ns |-> 0,       max |-> 153722867],
      [u |-> <<"h">>,      sec |-> 3600, ns |-> 0,       max |-> 2562047]>>

HasUnit(u) == \E i \in 1..Len(UnitMap) : UnitMap[i].u = u

UnitOf(u) == UnitMap[CHOOSE i \in 1..Len(UnitMap) : UnitMap[i].u = u]

IsUnitChar(c) == ~(c = "." \/ IsDigit(c))

\* The number of leading digits of s, and of leading unit characters.
RECURSIVE LeadingDigits(_)
LeadingDigits(s) ==
    IF s # << >> /\ IsDigit(Head(s)) THEN 1 + LeadingDigits(Tail(s)) ELSE 0

RECURSIVE LeadingUnitChars(_)
LeadingUnitChars(s) ==
    IF s # << >> /\ IsUnitChar(Head(s))
    THEN 1 + LeadingUnitChars(Tail(s))
    ELSE 0

\* s cut after its first n characters: <<s[:n], s[n:]>>.
CutAt(s, n) == <<SubSeq(s, 1, n), SubSeq(s, n + 1, Len(s))>>

\* leadingInt and leadingFraction consume [0-9]*; the unit is what follows,
\* up to the next '.' or digit.
TakeDigits(s) == CutAt(s, LeadingDigits(s))

TakeUnit(s) == CutAt(s, LeadingUnitChars(s))

\* v * unit
WholeAmount(v, unit) ==
    IF unit.sec > 0
    THEN [sec |-> v * unit.sec, ns |-> 0]
    ELSE [sec |-> v \div (1000000000 \div unit.ns),
          ns  |-> (v % (1000000000 \div unit.ns)) * unit.ns]

\* uint64(float64(f) * (float64(unit) / scale)) with scale = 10^k, taken as
\* the exact quotient rounded down.
FracAmount(f, k, unit) ==
    IF unit.sec > 0
    THEN [sec |-> (f * unit.sec) \div Pow(10, k),
          ns  |-> IF k <= 9
                  THEN ((f * unit.sec) % Pow(10, k)) * Pow(10, 9 - k)
                  ELSE ((f * unit.sec) % Pow(10, k)) \div Pow(10, k - 9)]
    ELSE [sec |-> 0, ns |-> (f * unit.ns) \div Pow(10, k)]

AddAmount(a, b) ==
    [sec |-> a.sec + b.sec + ((a.ns + b.ns) \div 1000000000),
     ns  |-> (a.ns + b.ns) % 1000000000]

DurationError(d, why) == [ok |-> FALSE, d |-> d, why |-> why]

\* The loop of ParseDuration over ([0-9]*(\.[0-9]*)?[a-z]+)+, d the sum so
\* far.  One pass: the digits, the fraction, the unit, the sum.
RECURSIVE DurationPairs(_, _)

DurationAdd(rest, d, unit, v, f, k) ==
    IF unit.max > 0 /\ v > unit.max
    THEN DurationError(d, "time: invalid duration")
    ELSE DurationPairs(rest, AddAmount(d, AddAmount(WholeAmount(v, unit),
                                                    FracAmount(f, k, unit))))

DurationUnit(intStr, frac, w, d) ==
    IF intStr # << >> /\ ~DecLeq(intStr, MinInt64Str)
    THEN DurationError(d, "time: invalid duration")
    ELSE IF intStr = << >> /\ frac = << >>
    THEN DurationError(d, "time: invalid duration")
    ELSE IF w[1] = << >>
    THEN DurationError(d, "time: missing unit in duration")
    ELSE IF ~HasUnit(w[1])
    THEN DurationError(d, "time: unknown unit in duration")
    ELSE DurationAdd(w[2], d, UnitOf(w[1]), DecValue(intStr, 0),
                     DecValue(frac, 0), Len(frac))

DurationFraction(intStr, q, d) == DurationUnit(intStr, q[1], TakeUnit(q[2]), d)

DurationInt(p, d) ==
    DurationFraction(p[1],
                     IF p[2] # << >> /\ Head(p[2]) = "."
                     THEN TakeDigits(Tail(p[2]))
                     ELSE << << >>, p[2] >>,
                     d)

DurationPairs(s, d) ==
    IF s = << >> THEN [ok |-> TRUE, d |-> d, why |-> ""]
    ELSE IF IsUnitChar(Head(s))
    THEN DurationError(d, "time: invalid duration")
    ELSE DurationInt(TakeDigits(s), d)

DurationSigned(neg, r) ==
    IF ~r.ok THEN DurationError(ZeroDuration, r.why)
    ELSE [ok |-> TRUE,
          d |-> [neg |-> neg /\ (r.d.sec # 0 \/ r.d.ns # 0),
                 sec |-> r.d.sec, ns |-> r.d.ns],
          why |-> ""]

DurationBody(neg, body) ==
    IF body = <<"0">> THEN [ok |-> TRUE, d |-> ZeroDuration, why |-> ""]
    ELSE IF body = << >>
    THEN DurationError(ZeroDuration, "time: invalid duration")
    ELSE DurationSigned(neg, DurationPairs(body, [sec |-> 0, ns |-> 0]))

\* A ParseDuration that reads a string of digits as that many nanoseconds.
ParseDuration_AsInt(s) ==
    IF ParseUint(s).ok /\ Len(s) <= 9
    THEN [ok |-> TRUE,
          d |-> [neg |-> FALSE, sec |-> 0, ns |-> DecValue(s, 0)],
          why |-> ""]
    ELSE DurationBody(s # << >> /\ Head(s) = "-",
                      IF s # << >> /\ Head(s) \in {"-", "+"}
                      THEN Tail(s) ELSE s)

ParseDuration(s) ==
    DurationBody(s # << >> /\ Head(s) = "-",
                 IF s # << >> /\ Head(s) \in {"-", "+"} THEN Tail(s) ELSE s)

(***************************************************************************)
(* Types (reflect.Type) and values (reflect.Value)                         *)
(*                                                                         *)
(* A type is named by an identifier and described by what the code reads   *)
(* of it: Name(), Kind(), the width of an integer kind, Elem(), the fields *)
(* with their env tags, and the UnmarshalEnv method of its pointer type    *)
(* ("" when there is none; `recv` tells a pointer from a value receiver).  *)
(* `std` is TRUE for the type time.Duration itself.                        *)
(*                                                                         *)
(* Values: a string is its characters, an integer kind a number, a bool a  *)
(* BOOLEAN, a Duration a [neg, sec, ns]; a pointer is [nil |-> TRUE] or    *)
(* [nil |-> FALSE, elem |-> v], a slice or a map [nil |-> TRUE] or         *)
(* [nil |-> FALSE, elts |-> <<...>>]; a struct is the tuple of its fields. *)
(***************************************************************************)

Scalar(name, kind, bits) ==
    [name |-> name, kind |-> kind, bits |-> bits, elem |-> "",
     fields |-> << >>, hook |-> "", recv |-> "", std |-> FALSE]

Composite(kind, elem) ==
    [name |-> "", kind |-> kind, bits |-> 0, elem |-> elem,
     fields |-> << >>, hook |-> "", recv |-> "", std |-> FALSE]

Struct(name, fields) ==
    [name |-> name, kind |-> "struct", bits |-> 0, elem |-> "",
     fields |-> fields, hook |-> "", recv |-> "", std |-> FALSE]

Field(name, tag, type) == [name |-> name, tag |-> tag, type |-> type]

\* type Obj1 struct
Obj1 ==
    Struct("Obj1", <<Field("A", "OBJ1_A", "string"),
                     Field("B", "OBJ1_B", "uint"),
                     Field("C", "OBJ1_C", "bool"),
                     Field("D", "OBJ1_D", "[]int"),
                     Field("E", "OBJ1_E", "Duration")>>)

\* type Obj2 struct: B carries no tag
Obj2 ==
    Struct("Obj2", <<Field("A", "OBJ2_A", "*string"),
                     Field("B", "", "uint")>>)

\* type NestedObj1 struct
NestedObj1 ==
    Struct("NestedObj1", <<Field("A", "NESTED_", "Obj1"),
                           Field("F", "NESTED_OBJ1_F", "uint")>>)

\* type NestedObj2 struct
NestedObj2 ==
    Struct("NestedObj2", <<Field("A", "NESTED_OBJ2_", "*Obj1"),
                           Field("B", "NESTED_OBJ2_B", "[]uint"),
                           Field("C", "NESTED_OBJ2_C", "*[]uint")>>)

\* type EnvMarshalerObj1 struct, with func (o *EnvMarshalerObj1) UnmarshalEnv
EnvMarshalerObj1 ==
    [Struct("EnvMarshalerObj1",
            <<Field("A", "ENV_MARSHALER_OBJ1_A", "uint"),
              Field("B", "ENV_MARSHALER_OBJ1_B", "string")>>)
     EXCEPT !.hook = "EnvMarshalerObj1", !.recv = "ptr"]

\* An implementation of EnvUnmarshaler whose method assigns a field before
\* it finds that it cannot go on: type EagerObj struct, with
\* func (o *EagerObj) UnmarshalEnv.
EagerObj ==
    [Struct("EagerObj", <<Field("A", "EAGER_A", "uint"),
                          Field("B", "EAGER_B", "string")>>)
     EXCEPT !.hook = "EagerObj", !.recv = "ptr"]

\* type EnvMarshalerObj2 uint, with func (o *EnvMarshalerObj2) UnmarshalEnv
EnvMarshalerObj2 ==
    [Scalar("EnvMarshalerObj2", "uint", 64)
     EXCEPT !.hook = "EnvMarshalerObj2", !.recv = "ptr"]

\* type NonEnvMarshaler uint
NonEnvMarshaler == Scalar("NonEnvMarshaler", "uint", 64)

\* type Config struct: a tagged pointer field whose pointee has the hook
Config ==
    Struct("Config", <<Field("DbCredentials", "DB_", "*EnvMarshalerObj1")>>)

\* A struct two levels above Obj1, and one whose untagged fields are of
\* kinds the walk or the parser would otherwise act on.
DeepObj ==
    Struct("DeepObj", <<Field("N", "DEEP_", "*NestedObj1"),
                        Field("G", "DEEP_G", "uint8")>>)

\* time.Time, whose fields have no tags, and a struct of the caller's that
\* is named Time and has a tagged field.
Time ==
    Struct("Time", <<Field("wall", "", "uint64"), Field("ext", "", "int64")>>)

MainTime == Struct("Time", <<Field("Sec", "SEC", "uint")>>)

TimedObj ==
    Struct("TimedObj", <<Field("Name", "TIMED_NAME", "string"),
                         Field("At", "TIMED_AT", "Time")>>)

StampedObj ==
    Struct("StampedObj", <<Field("At", "STAMP_", "*main.Time"),
                           Field("Name", "STAMP_NAME", "string")>>)

LoggedObj == Struct("LoggedObj", <<Field("Entry", "LOG_", "*TimedObj")>>)

\* Types with a tagged pointer field to their own type: in Node the pointer
\* comes first, in Chain a leaf comes before it.
Node ==
    Struct("Node", <<Field("Next", "N_", "*Node"),
                     Field("V", "V", "uint")>>)

Chain ==
    Struct("Chain", <<Field("V", "V", "uint"),
                      Field("Next", "N_", "*Chain")>>)

UntaggedObj ==
    Struct("UntaggedObj", <<Field("M", "", "map[string]string"),
                            Field("A", "UT_A", "uint8"),
                            Field("O", "", "Obj1"),
                            Field("P", "", "*Obj1")>>)

TypeTable ==
    ("string" :> Scalar("string", "string", 0)) @@
    ("bool" :> Scalar("bool", "bool", 0)) @@
    ("uint" :> Scalar("uint", "uint", 64)) @@
    ("uint8" :> Scalar("uint8", "uint8", 8)) @@
    ("uint16" :> Scalar("uint16", "uint16", 16)) @@
    ("uint32" :> Scalar("uint32", "uint32", 32)) @@
    ("uint64" :> Scalar("uint64", "uint64", 64)) @@
    ("int" :> Scalar("int", "int", 64)) @@
    ("int8" :> Scalar("int8", "int8", 8)) @@
    ("int16" :> Scalar("int16", "int16", 16)) @@
    ("int32" :> Scalar("int32", "int32", 32)) @@
    ("int64" :> Scalar("int64", "int64", 64)) @@
    ("Duration" :> [Scalar("Duration", "int64", 64) EXCEPT !.std = TRUE]) @@
    ("main.Duration" :> Scalar("Duration", "int64", 64)) @@
    ("[]main.Duration" :> Composite("slice", "main.Duration")) @@
    ("[]int" :> Composite("slice", "int")) @@
    ("[3]int" :> Composite("array", "int")) @@
    ("[2]string" :> Composite("array", "string")) @@
    ("[]uint" :> Composite("slice", "uint")) @@
    ("[]string" :> Composite("slice", "string")) @@
    ("[]uint8" :> Composite("slice", "uint8")) @@
    ("[]Obj1" :> Composite("slice", "Obj1")) @@
    ("[]map[string]string" :> Composite("slice", "map[string]string")) @@
    ("*uint8" :> Composite("ptr", "uint8")) @@
    ("*bool" :> Composite("ptr", "bool")) @@
    ("*Duration" :> Composite("ptr", "Duration")) @@
    ("*map[string]string" :> Composite("ptr", "map[string]string")) @@
    ("chan int" :> Composite("chan", "int")) @@
    ("func()" :> Composite("func", "")) @@
    ("float32" :> Scalar("float32", "float32", 32)) @@
    ("float64" :> Scalar("float64", "float64", 64)) @@
    ("[]float64" :> Composite("slice", "float64")) @@
    ("complex128" :> Scalar("complex128", "complex128", 128)) @@
    ("uintptr" :> Scalar("uintptr", "uintptr", 64)) @@
    ("*[]uint" :> Composite("ptr", "[]uint")) @@
    ("*string" :> Composite("ptr", "string")) @@
    ("map[string]string" :> Composite("map", "string")) @@
    ("*Obj1" :> Composite("ptr", "Obj1")) @@
    ("*NestedObj1" :> Composite("ptr", "NestedObj1")) @@
    ("*EnvMarshalerObj1" :> Composite("ptr", "EnvMarshalerObj1")) @@
    ("Obj1" :> Obj1) @@
    ("Obj2" :> Obj2) @@
    ("NestedObj1" :> NestedObj1) @@
    ("NestedObj2" :> NestedObj2) @@
    ("EnvMarshalerObj1" :> EnvMarshalerObj1) @@
    ("EagerObj" :> EagerObj) @@
    ("Time" :> Time) @@
    ("main.Time" :> MainTime) @@
    ("*main.Time" :> Composite("ptr", "main.Time")) @@
    ("TimedObj" :> TimedObj) @@
    ("*TimedObj" :> Composite("ptr", "TimedObj")) @@
    ("StampedObj" :> StampedObj) @@
    ("LoggedObj" :> LoggedObj) @@
    ("text.Duration" :> Scalar("Duration", "string", 0)) @@
    ("Node" :> Node) @@
    ("*Node" :> Composite("ptr", "Node")) @@
    ("Chain" :> Chain) @@
    ("*Chain" :> Composite("ptr", "Chain")) @@
    ("EnvMarshalerObj2" :> EnvMarshalerObj2) @@
    ("NonEnvMarshaler" :> NonEnvMarshaler) @@
    ("Config" :> Config) @@
    ("DeepObj" :> DeepObj) @@
    ("UntaggedObj" :> UntaggedObj)

UintKinds == {"uint8", "uint16", "uint32", "uint64", "uint"}
IntKinds == {"int8", "int16", "int32", "int64", "int"}
FloatKinds == {"float32", "float64"}

Nil == [nil |-> TRUE]

PtrTo(v) == [nil |-> FALSE, elem |-> v]

SliceOf(elts) == [nil |-> FALSE, elts |-> elts]

\* reflect.New(t).Elem(): the zero value of the type.
RECURSIVE Zero(_)
RECURSIVE ZeroFields(_, _)
ZeroFields(fields, i) ==
    IF i > Len(fields) THEN << >>
    ELSE <<Zero(fields[i].type)>> \o ZeroFields(fields, i + 1)

ZeroOf(T) ==
    IF T.name = "Duration" /\ T.std THEN ZeroDuration
    ELSE IF T.kind = "string" THEN << >>
    ELSE IF T.kind = "bool" THEN FALSE
    ELSE IF T.kind \in UintKinds \cup IntKinds THEN 0
    ELSE IF T.kind \in FloatKinds THEN ZeroFloat
    ELSE IF T.kind = "struct" THEN ZeroFields(T.fields, 1)
    ELSE Nil

Zero(t) == ZeroOf(TypeTable[t])

(***************************************************************************)
(* Errors                                                                  *)
(*                                                                         *)
(* An error of github.com/pkg/errors is the chain of its messages, the     *)
(* outermost first; no error (nil) is the empty chain.                     *)
(***************************************************************************)

NoError == << >>

Errorf(msg, args) == <<[msg |-> msg, args |-> args]>>

Wrapf(err, msg, args) == <<[msg |-> msg, args |-> args]>> \o err

(***************************************************************************)
(* DefaultParser.ParseType                                                 *)
(*                                                                         *)
(* ParseType(str, t) ends "ok" with the value, "err" with the error and    *)
(* the zero value, or "panic".  T is the descriptor of t.                  *)
(***************************************************************************)

Parsed(v) == [st |-> "ok", val |-> v, err |-> NoError]

Failed(T, err) == [st |-> "err", val |-> ZeroOf(T), err |-> err]

Panicked(T, what) ==
    [st |-> "panic", val |-> ZeroOf(T), err |-> Errorf(what, << >>)]

RECURSIVE ParseType(_, _)
RECURSIVE ParseElts(_, _, _, _)

\* tName == "Duration", d the result of time.ParseDuration(str)
ParseDurationType(str, T, d) ==
    IF ~d.ok
    THEN Failed(T, Wrapf(Errorf(d.why, <<Join(str)>>),
                         "Could not parse duration \"%s\"", <<Join(str)>>))
    ELSE IF ~T.std
    THEN Panicked(T, "reflect.Set: value of type time.Duration is not assignable")
    ELSE Parsed(d.d)

\* case reflect.Ptr, r the result of ParseType(str, t.Elem())
ParsePtrType(r) ==
    IF r.st = "ok" THEN Parsed(PtrTo(r.val)) ELSE [r EXCEPT !.val = Nil]

\* case reflect.Bool, b the result of strconv.ParseBool(strings.ToLower(str))
ParseBoolType(str, T, b) ==
    IF ~b.ok
    THEN Failed(T, Wrapf(Errorf("strconv.ParseBool: invalid syntax",
                                <<Join(ToLower(str))>>),
                         "Cannot convert %s to a boolean value.",
                         <<Join(str)>>))
    ELSE Parsed(b.b)

\* case reflect.Uint8 ... reflect.Uint, u the result of strconv.ParseUint
ParseUintType(str, T, u) ==
    IF ~u.ok
    THEN Failed(T, Wrapf(Errorf("strconv.ParseUint: " \o u.why, <<Join(str)>>),
                         "Cannot convert %s to %s", <<Join(str), T.name>>))
    ELSE IF OverflowUint(u, T.bits)
    THEN Failed(T, Errorf("The value %d overflows type %s",
                          <<FormatInt(u), T.name>>))
    ELSE Parsed(u.n)

\* case reflect.Int8 ... reflect.Int, n the result of strconv.ParseInt
ParseIntType(str, T, n) ==
    IF ~n.ok
    THEN Failed(T, Wrapf(Errorf("strconv.ParseInt: " \o n.why, <<Join(str)>>),
                         "Cannot convert %s to %s", <<Join(str), T.name>>))
    ELSE IF OverflowInt(n, T.bits)
    THEN Failed(T, Errorf("The value %d overflows type %s",
                          <<FormatInt(n), T.name>>))
    ELSE Parsed(n.n)

\* case reflect.Float32, reflect.Float64, f the result of strconv.ParseFloat;
\* the %d of the overflow message is handed a float64.
ParseFloatType(str, T, f) ==
    IF ~f.ok
    THEN Failed(T, Wrapf(Errorf("strconv.ParseFloat: " \o f.why,
                                <<Join(str)>>),
                         "Cannot convert %s to %s", <<Join(str), T.name>>))
    ELSE IF OverflowFloat(f.f, T.bits)
    THEN Failed(T, Errorf("The value %d overflows type %s",
                          <<"%!d(float64)", T.name>>))
    ELSE Parsed(f.f)

\* A turn of the loop that goes on after an element has failed and reports
\* the last failure.
ParseElt_KeepsGoing(elts, i, eltType, acc, r) ==
    IF r.st = "panic" THEN r
    ELSE IF r.st = "err" /\ i < Len(elts) /\
            ParseElts(elts, i + 1, eltType, acc).st # "ok"
    THEN ParseElts(elts, i + 1, eltType, acc)
    ELSE IF r.st = "err"
    THEN [st |-> "err", val |-> Nil,
          err |-> Wrapf(r.err, "Could not marshal element %d",
                        <<ToString(i - 1)>>)]
    ELSE ParseElts(elts, i + 1, eltType, Append(acc, r.val))

\* One turn of the loop over the elements: r the result of parsing elts[i].
ParseElt(elts, i, eltType, acc, r) ==
    IF r.st = "panic" THEN r
    ELSE IF r.st = "err"
    THEN [st |-> "err", val |-> Nil,
          err |-> Wrapf(r.err, "Could not marshal element %d",
                        <<ToString(i - 1)>>)]
    ELSE ParseElts(elts, i + 1, eltType, Append(acc, r.val))

\* case reflect.Array, reflect.Slice: the loop, elts[i..] parsed onto acc.
ParseElts(elts, i, eltType, acc) ==
    IF i > Len(elts) THEN Parsed(SliceOf(acc))
    ELSE ParseElt(elts, i, eltType, acc,
                  ParseType(TrimSpace(elts[i]), eltType))

\* A switch whose default case returns the zero value without an error.
ParseTypeOf_ZeroDefault(str, T) ==
    IF T.name = "Duration" THEN ParseDurationType(str, T, ParseDuration(str))
    ELSE IF T.kind = "ptr" THEN ParsePtrType(ParseType(str, T.elem))
    ELSE IF T.kind = "string" THEN Parsed(TrimSpace(str))
    ELSE IF T.kind = "bool" THEN ParseBoolType(str, T, ParseBool(ToLower(str)))
    ELSE IF T.kind \in UintKinds THEN ParseUintType(str, T, ParseUint(str))
    ELSE IF T.kind \in IntKinds THEN ParseIntType(str, T, ParseInt(str))
    ELSE IF T.kind \in FloatKinds THEN ParseFloatType(str, T, ParseFloat(str))
    ELSE IF T.kind = "array"
    THEN Panicked(T, "reflect.MakeSlice of non-slice type")
    ELSE IF T.kind = "slice"
    THEN ParseElts(IF str = << >> THEN << >> ELSE Split(str), 1, T.elem, << >>)
    ELSE Parsed(ZeroOf(T))

\* The switch of ParseType over the name and the kind of t.
ParseTypeOf(str, T) ==
    IF T.name = "Duration" THEN ParseDurationType(str, T, ParseDuration(str))
    ELSE IF T.kind = "ptr" THEN ParsePtrType(ParseType(str, T.elem))
    ELSE IF T.kind = "string" THEN Parsed(TrimSpace(str))
    ELSE IF T.kind = "bool" THEN ParseBoolType(str, T, ParseBool(ToLower(str)))
    ELSE IF T.kind \in UintKinds THEN ParseUintType(str, T, ParseUint(str))
    ELSE IF T.kind \in IntKinds THEN ParseIntType(str, T, ParseInt(str))
    ELSE IF T.kind \in FloatKinds THEN ParseFloatType(str, T, ParseFloat(str))
    ELSE IF T.kind = "array"
    THEN Panicked(T, "reflect.MakeSlice of non-slice type")
    ELSE IF T.kind = "slice"
    THEN ParseElts(IF str = << >> THEN << >> ELSE Split(str), 1, T.elem, << >>)
    ELSE Failed(T, Errorf("Cannot unmarshal objects of type %s", <<T.name>>))

ParseType(str, t) == ParseTypeOf(str, TypeTable[t])

\* An allocator that hands out the cell of the call before.
New_Reused(h, v) ==
    IF Len(h) > 1 THEN [h EXCEPT ![Len(h)] = v] ELSE Append(h, v)

\* reflect.New(t): a cell that nothing refers to yet, after the cells of the
\* heap h, holding v once the call has set it.
New(h, v) == Append(h, v)

\* ParseType as its caller sees it on the heap h: r with, for a pointer, the
\* address of the cell the inner call made (val.Set(indirectVal.Addr())), 0
\* where no pointer is returned.
ParseTypeAt(h2, r) ==
    [res |-> [st |-> r.st, val |-> r.val, err |-> r.err, addr |-> Len(h2)],
     heap |-> h2]

ParseTypeOn(h, r, T) ==
    IF r.st = "ok" /\ T.kind = "ptr"
    THEN ParseTypeAt(New(h, r.val.elem), r)
    ELSE [res |-> [st |-> r.st, val |-> r.val, err |-> r.err, addr |-> 0],
          heap |-> h]

(***************************************************************************)
(* The environment (EnvReader) and the hooks (EnvUnmarshaler)              *)
(***************************************************************************)

\* A LookupEnv for which a key set to the empty string is not set.
LookupEnv_EmptyIsUnset(e, key) ==
    IF key \in DOMAIN e /\ e[key] # << >> THEN [val |-> e[key], ok |-> TRUE]
    ELSE [val |-> << >>, ok |-> FALSE]

\* MockEnvReader.LookupEnv / OsEnvReader.LookupEnv over the map e: the value
\* and whether the key is set.
LookupEnv(e, key) ==
    IF key \in DOMAIN e THEN [val |-> e[key], ok |-> TRUE]
    ELSE [val |-> << >>, ok |-> FALSE]

\* The loop of HasKeys from keys[i] on, missingKeys the keys appended so far.
RECURSIVE HasKeysFrom(_, _, _, _)

\* A loop that also takes a key set to the empty string for a missing key.
HasKeysFrom_EmptyIsMissing(e, keys, i, missingKeys) ==
    IF i > Len(keys)
    THEN [ok |-> Len(missingKeys) = 0, missing |-> missingKeys]
    ELSE HasKeysFrom(e, keys, i + 1,
                     IF ~LookupEnv(e, keys[i]).ok \/
                        LookupEnv(e, keys[i]).val = << >>
                     THEN Append(missingKeys, keys[i])
                     ELSE missingKeys)

HasKeysFrom(e, keys, i, missingKeys) ==
    IF i > Len(keys)
    THEN [ok |-> Len(missingKeys) = 0, missing |-> missingKeys]
    ELSE HasKeysFrom(e, keys, i + 1,
                     IF ~LookupEnv(e, keys[i]).ok
                     THEN Append(missingKeys, keys[i])
                     ELSE missingKeys)

\* OsEnvReader.HasKeys
HasKeys(e, keys) == HasKeysFrom(e, keys, 1, << >>)

\* func (o *EnvMarshalerObj1) UnmarshalEnv(env EnvReader) error, b the
\* result of env.LookupEnv("ENV_MARSHALER_OBJ1_B")
EnvMarshalerObj1_UnmarshalEnv(o, b) ==
    IF ~b.ok
    THEN [st |-> "err", val |-> o,
          err |-> Errorf("Cannot marshal UnmarshalableEnvObj1: missing UNMARSHALABLE_ENV_OBJ1_B", << >>),
          lookups |-> <<"ENV_MARSHALER_OBJ1_B">>]
    ELSE [st |-> "ok", val |-> <<3, b.val>>, err |-> NoError,
          lookups |-> <<"ENV_MARSHALER_OBJ1_B">>]

\* func (o *EagerObj) UnmarshalEnv(env EnvReader) error: o.A = 3, then b the
\* result of env.LookupEnv("EAGER_B"), an error when it is not set.
EagerObj_UnmarshalEnv(o, b) ==
    IF ~b.ok
    THEN [st |-> "err", val |-> [o EXCEPT ![1] = 3],
          err |-> Errorf("Cannot marshal EagerObj: missing EAGER_B", << >>),
          lookups |-> <<"EAGER_B">>]
    ELSE [st |-> "ok", val |-> <<3, b.val>>, err |-> NoError,
          lookups |-> <<"EAGER_B">>]

\* func (o *EnvMarshalerObj2) UnmarshalEnv(env EnvReader) error
EnvMarshalerObj2_UnmarshalEnv(o) ==
    [st |-> "ok", val |-> 1, err |-> NoError, lookups |-> << >>]

\* The UnmarshalEnv method named `hook`, run on the object o.
UnmarshalEnv(hook, o, e) ==
    IF hook = "EnvMarshalerObj1"
    THEN EnvMarshalerObj1_UnmarshalEnv(o, LookupEnv(e, "ENV_MARSHALER_OBJ1_B"))
    ELSE IF hook = "EagerObj"
    THEN EagerObj_UnmarshalEnv(o, LookupEnv(e, "EAGER_B"))
    ELSE EnvMarshalerObj2_UnmarshalEnv(o)

(***************************************************************************)
(* DefaultEnvMarshaler                                                     *)
(*                                                                         *)
(* Each helper returns, with its value and error, what it did on the way:  *)
(* the keys it passed to LookupEnv and the (string, type) pairs it passed  *)
(* to ParseType, in call order.                                            *)
(***************************************************************************)

\* reflect.PtrTo(t).Implements(modelType)
implementsUnmarshal(t) == TypeTable[t].hook # ""

Outcome(st, val, err, lookups, parses) ==
    [st |-> st, val |-> val, err |-> err, lookups |-> lookups,
     parses |-> parses]

\* unmarshalType after parser.ParseType(envVal, fieldType) returned r.
unmarshalTypeParsed(r, envVal, fieldType, fieldEnvTag) ==
    IF r.st = "panic"
    THEN Outcome("panic", Nil, r.err, <<fieldEnvTag>>,
                 <<[str |-> envVal, type |-> fieldType]>>)
    ELSE IF r.st = "err"
    THEN Outcome("err", Nil,
                 Wrapf(r.err, "cannot unmarshal %s to type %s (Env: %s)",
                       <<Join(envVal), TypeTable[fieldType].name, fieldEnvTag>>),
                 <<fieldEnvTag>>, <<[str |-> envVal, type |-> fieldType]>>)
    ELSE Outcome("ok", r.val, NoError, <<fieldEnvTag>>,
                 <<[str |-> envVal, type |-> fieldType]>>)

\* An unmarshalType for which a key that is not set reads as the empty
\* string: a field that is optional.
unmarshalTypeLooked_Optional(l, fieldType, fieldEnvTag) ==
    unmarshalTypeParsed(ParseType(l.val, fieldType), l.val, fieldType,
                        fieldEnvTag)

\* unmarshalType after marshaler.Environment.LookupEnv(fieldEnvTag) returned l.
unmarshalTypeLooked(l, fieldType, fieldEnvTag) ==
    IF ~l.ok
    THEN Outcome("err", Nil,
                 Errorf("cannot retrieve any value from environment var %s",
                        <<fieldEnvTag>>),
                 <<fieldEnvTag>>, << >>)
    ELSE unmarshalTypeParsed(ParseType(l.val, fieldType), l.val, fieldType,
                             fieldEnvTag)

\* An unmarshalType that asks HasKeys for the key before it looks it up.
unmarshalType_HasKeysFirst(e, fieldType, fieldEnvTag) ==
    [unmarshalTypeLooked(LookupEnv(e, fieldEnvTag), fieldType, fieldEnvTag)
     EXCEPT !.lookups =
        IF HasKeys(e, <<fieldEnvTag>>).ok
        THEN <<fieldEnvTag, fieldEnvTag>> ELSE <<fieldEnvTag>>]

unmarshalType(e, fieldType, fieldEnvTag) ==
    unmarshalTypeLooked(LookupEnv(e, fieldEnvTag), fieldType, fieldEnvTag)

RECURSIVE unmarshalStruct(_, _, _)
RECURSIVE unmarshalFields(_, _, _, _, _)

\* An unmarshalNonPtr that returns an error of its own in place of the
\* error of the struct's field.
unmarshalNonPtrStruct_Replaces(r, fieldEnvTag, tName) ==
    IF r.st = "err"
    THEN [r EXCEPT !.val = Nil,
                   !.err = Errorf("cannot unmarshal %s to type %s",
                                  <<fieldEnvTag, tName>>)]
    ELSE r

\* unmarshalNonPtr after marshaler.unmarshalStruct(fieldType, fieldEnvTag)
\* returned r.
unmarshalNonPtrStruct(r, fieldEnvTag, tName) ==
    IF r.st = "err"
    THEN [r EXCEPT !.val = Nil,
                   !.err = Wrapf(r.err, "cannot unmarshal %s to type %s",
                                 <<fieldEnvTag, tName>>)]
    ELSE r

\* An unmarshalNonPtr that looks at the kind before the name.
unmarshalNonPtrOf_KindFirst(e, fieldType, T, fieldEnvTag) ==
    IF T.kind # "struct"
    THEN unmarshalType(e, fieldType, fieldEnvTag)
    ELSE unmarshalNonPtrStruct(unmarshalStruct(e, fieldType, fieldEnvTag),
                               fieldEnvTag, T.name)

\* unmarshalNonPtr, T the descriptor of fieldType: a type named Time and a
\* type that is no struct go to unmarshalType, a struct is walked.
unmarshalNonPtrOf(e, fieldType, T, fieldEnvTag) ==
    IF T.name = "Time" \/ T.kind # "struct"
    THEN unmarshalType(e, fieldType, fieldEnvTag)
    ELSE unmarshalNonPtrStruct(unmarshalStruct(e, fieldType, fieldEnvTag),
                               fieldEnvTag, T.name)

unmarshalNonPtr(e, fieldType, fieldEnvTag) ==
    unmarshalNonPtrOf(e, fieldType, TypeTable[fieldType], fieldEnvTag)

\* unmarshalField after marshaler.unmarshalNonPtr returned r: the error
\* wrapped, or the value the field is set to (its address for a pointer).
unmarshalFieldSet(r, isPtr, fieldName) ==
    IF r.st = "err"
    THEN [r EXCEPT !.err = Wrapf(r.err, "error unmarshaling field %s",
                                 <<fieldName>>)]
    ELSE IF r.st = "ok" /\ isPtr THEN [r EXCEPT !.val = PtrTo(r.val)]
    ELSE r

\* unmarshalField, FT the descriptor of the field's type.
unmarshalFieldOf(e, fieldStruct, FT, fieldEnvTag) ==
    unmarshalFieldSet(
        unmarshalNonPtr(e, IF FT.kind = "ptr" THEN FT.elem ELSE fieldStruct.type,
                        fieldEnvTag),
        FT.kind = "ptr", fieldStruct.name)

\* Unmarshals a field in a struct.
unmarshalField(e, fieldStruct, fieldEnvTag) ==
    unmarshalFieldOf(e, fieldStruct, TypeTable[fieldStruct.type], fieldEnvTag)

\* A loop that goes on with the next field after a field has failed, and
\* returns the error of the last field that failed.
unmarshalFieldDone_KeepsGoing(e, t, envPrefix, i, acc, r) ==
    unmarshalFields(e, t, envPrefix, i + 1,
        Outcome(IF r.st # "ok" THEN r.st ELSE acc.st,
                IF r.st # "ok" THEN acc.val ELSE [acc.val EXCEPT ![i] = r.val],
                IF r.st # "ok" THEN r.err ELSE acc.err,
                acc.lookups \o r.lookups, acc.parses \o r.parses))

\* The loop of unmarshalStruct after marshaler.unmarshalField returned r for
\* field i: return the error, or go on with the next field.
unmarshalFieldDone(e, t, envPrefix, i, acc, r) ==
    IF r.st # "ok"
    THEN Outcome(r.st, acc.val, r.err, acc.lookups \o r.lookups,
                 acc.parses \o r.parses)
    ELSE unmarshalFields(e, t, envPrefix, i + 1,
             Outcome("ok", [acc.val EXCEPT ![i] = r.val], NoError,
                     acc.lookups \o r.lookups, acc.parses \o r.parses))

\* A loop that looks a nested field up under its own tag alone.
unmarshalFieldAt_NoPrefix(e, t, envPrefix, i, acc, fieldStruct) ==
    IF fieldStruct.tag = ""
    THEN unmarshalFields(e, t, envPrefix, i + 1, acc)
    ELSE unmarshalFieldDone(e, t, envPrefix, i, acc,
             unmarshalField(e, fieldStruct, fieldStruct.tag))

\* A loop that does not skip the fields without tag.
unmarshalFieldAt_NoSkip(e, t, envPrefix, i, acc, fieldStruct) ==
    unmarshalFieldDone(e, t, envPrefix, i, acc,
        unmarshalField(e, fieldStruct, envPrefix \o fieldStruct.tag))

\* The loop of unmarshalStruct at field i: a field without tag is skipped.
unmarshalFieldAt(e, t, envPrefix, i, acc, fieldStruct) ==
    IF fieldStruct.tag = ""
    THEN unmarshalFields(e, t, envPrefix, i + 1, acc)
    ELSE unmarshalFieldDone(e, t, envPrefix, i, acc,
             unmarshalField(e, fieldStruct, envPrefix \o fieldStruct.tag))

\* The loop of unmarshalStruct from field i on: acc holds the instance built
\* so far and what the fields before i did.
unmarshalFields(e, t, envPrefix, i, acc) ==
    IF i > Len(TypeTable[t].fields) THEN acc
    ELSE unmarshalFieldAt(e, t, envPrefix, i, acc, TypeTable[t].fields[i])

\* Recursively unmarshals a struct.
unmarshalStruct(e, t, envPrefix) ==
    IF TypeTable[t].kind # "struct"
    THEN Outcome("err", Zero(t),
                 Errorf("cannot unmarshal non-struct type %s",
                        <<TypeTable[t].kind>>),
                 << >>, << >>)
    ELSE unmarshalFields(e, t, envPrefix, 1,
                         Outcome("ok", Zero(t), NoError, << >>, << >>))

\* What a call did: how it ended ("ok", "err" with the error returned, or
\* "panic"), the caller's object afterwards, and the calls made on the way.
Done(st, err, val, r, hookCalls, hookLookups, writes) ==
    [st |-> st, err |-> err, val |-> val, lookups |-> r.lookups,
     parses |-> r.parses, hookCalls |-> hookCalls,
     hookLookups |-> hookLookups, writes |-> writes]

Nothing == [lookups |-> << >>, parses |-> << >>]

\* An Unmarshal that puts the object back as it was when the method fails.
UnmarshalHooked_Restores(h, t, v, onObject) ==
    Done(h.st, h.err, IF onObject /\ h.st = "ok" THEN h.val ELSE v, Nothing,
         <<t>>, h.lookups, 0)

\* Unmarshal after envUnmarsh.UnmarshalEnv(marshaler.Environment) returned
\* h: a method with a pointer receiver has worked on the caller's object.
UnmarshalHooked(h, t, v, onObject) ==
    Done(h.st, h.err, IF onObject THEN h.val ELSE v, Nothing, <<t>>,
         h.lookups, 0)

\* An Unmarshal that sets v to what unmarshalStruct built whatever err is.
UnmarshalWalked_SetAlways(r, v, byPtr) ==
    IF r.st # "ok"
    THEN Done(r.st, r.err, IF byPtr THEN r.val ELSE v, r, << >>, << >>, 1)
    ELSE IF byPtr THEN Done("ok", NoError, r.val, r, << >>, << >>, 1)
    ELSE Done("panic",
              Errorf("reflect: reflect.Value.Set using unaddressable value", << >>),
              v, r, << >>, << >>, 0)

\* An Unmarshal that leaves the last field of the object as it was.
UnmarshalWalked_KeepsLast(r, v, byPtr) ==
    IF r.st # "ok" THEN Done(r.st, r.err, v, r, << >>, << >>, 0)
    ELSE IF byPtr
    THEN Done("ok", NoError, [r.val EXCEPT ![Len(v)] = v[Len(v)]], r,
              << >>, << >>, 1)
    ELSE Done("panic",
              Errorf("reflect: reflect.Value.Set using unaddressable value", << >>),
              v, r, << >>, << >>, 0)

\* Unmarshal after marshaler.unmarshalStruct(t, "") returned r: v.Set(val)
\* when err == nil, which panics on a value that is not addressable.
UnmarshalWalked(r, v, byPtr) ==
    IF r.st # "ok" THEN Done(r.st, r.err, v, r, << >>, << >>, 0)
    ELSE IF byPtr THEN Done("ok", NoError, r.val, r, << >>, << >>, 1)
    ELSE Done("panic",
              Errorf("reflect: reflect.Value.Set using unaddressable value", << >>),
              v, r, << >>, << >>, 0)

\* An Unmarshal that looks at the kind of the type before it looks for the
\* UnmarshalEnv method.
MarshalerUnmarshalOf_KindFirst(e, t, T, v, byPtr) ==
    IF T.kind = "struct"
    THEN UnmarshalWalked(unmarshalStruct(e, t, ""), v, byPtr)
    ELSE IF implementsUnmarshal(t) /\ byPtr
    THEN UnmarshalHooked(UnmarshalEnv(T.hook, v, e), t, v, T.recv = "ptr")
    ELSE Done("err",
              Errorf("cannot unmarshal non-struct, non-EnvMarshaler objects", << >>),
              v, Nothing, << >>, << >>, 0)

\* An Unmarshal that hands every type without the method to unmarshalStruct
\* and the parser.
MarshalerUnmarshalOf_NoKindCheck(e, t, T, v, byPtr) ==
    IF implementsUnmarshal(t)
    THEN IF byPtr \/ T.recv = "value"
         THEN UnmarshalHooked(UnmarshalEnv(T.hook, v, e), t, v,
                              byPtr /\ T.recv = "ptr")
         ELSE Done("panic",
                   Errorf("invalid memory address or nil pointer dereference", << >>),
                   v, Nothing, << >>, << >>, 0)
    ELSE IF T.kind # "struct"
    THEN UnmarshalWalked(unmarshalType(e, t, T.name), v, byPtr)
    ELSE UnmarshalWalked(unmarshalStruct(e, t, ""), v, byPtr)

\* DefaultEnvMarshaler.Unmarshal, T the descriptor of t.  The assertion
\* i.(EnvUnmarshaler) holds for &obj, and for obj when the method has a
\* value receiver; otherwise envUnmarsh is nil and the call on it panics.
MarshalerUnmarshalOf(e, t, T, v, byPtr) ==
    IF implementsUnmarshal(t)
    THEN IF byPtr \/ T.recv = "value"
         THEN UnmarshalHooked(UnmarshalEnv(T.hook, v, e), t, v,
                              byPtr /\ T.recv = "ptr")
         ELSE Done("panic",
                   Errorf("invalid memory address or nil pointer dereference", << >>),
                   v, Nothing, << >>, << >>, 0)
    ELSE IF T.kind # "struct"
    THEN Done("err",
              Errorf("cannot unmarshal non-struct, non-EnvMarshaler objects", << >>),
              v, Nothing, << >>, << >>, 0)
    ELSE UnmarshalWalked(unmarshalStruct(e, t, ""), v, byPtr)

\* t.Kind() == reflect.Ptr when i is the caller's pointer v itself: the call
\* has worked on what v points to, and v is the pointer it was.
Indirected(d) == [d EXCEPT !.val = PtrTo(d.val)]

\* v.Type() after reflect.Indirect(v) of a nil pointer
IndirectNil(v) ==
    Done("panic", Errorf("reflect: call of reflect.Value.Type on zero Value", << >>),
         v, Nothing, << >>, << >>, 0)

\* DefaultEnvMarshaler.Unmarshal(i) with Environment e, where i is the
\* caller's object of type t holding v, passed as &obj (byPtr) or as obj.
MarshalerUnmarshal(e, t, v, byPtr) ==
    IF byPtr \/ TypeTable[t].kind # "ptr"
    THEN MarshalerUnmarshalOf(e, t, TypeTable[t], v, byPtr)
    ELSE IF v.nil THEN IndirectNil(v)
    ELSE Indirected(MarshalerUnmarshalOf(e, TypeTable[t].elem,
                        TypeTable[TypeTable[t].elem], v.elem, TRUE))

\* DefaultParser.Unmarshal after marshaler.ParseType(val, t) returned r.
ParserUnmarshalParsed(r, val, t, v) ==
    IF r.st # "ok"
    THEN Done(r.st, r.err, v,
              [lookups |-> << >>, parses |-> <<[str |-> val, type |-> t]>>],
              << >>, << >>, 0)
    ELSE Done("ok", NoError, r.val,
              [lookups |-> << >>, parses |-> <<[str |-> val, type |-> t]>>],
              << >>, << >>, 1)

\* A DefaultParser.Unmarshal that parses without asking whether i can be set.
ParserUnmarshalOf_NoCanSet(val, t, v, byPtr) ==
    ParserUnmarshalParsed(ParseType(val, t), val, t, v)

\* DefaultParser.Unmarshal after t and v are taken from i: a value that was
\* not reached through a pointer cannot be set.
ParserUnmarshalOf(val, t, v, byPtr) ==
    IF ~byPtr
    THEN Done("err",
              IF TypeTable[t].name # ""
              THEN Errorf("Cannot serialize into an unsettable %s type.",
                          <<TypeTable[t].name>>)
              ELSE Errorf("Cannot serialize into an unsettable type.", << >>),
              v, Nothing, << >>, << >>, 0)
    ELSE ParserUnmarshalParsed(ParseType(val, t), val, t, v)

\* DefaultParser.Unmarshal(val, i), i as above.
ParserUnmarshal(val, t, v, byPtr) ==
    IF byPtr \/ TypeTable[t].kind # "ptr"
    THEN ParserUnmarshalOf(val, t, v, byPtr)
    ELSE IF v.nil THEN IndirectNil(v)
    ELSE Indirected(ParserUnmarshalOf(val, TypeTable[t].elem, v.elem, TRUE))

(***************************************************************************)
(* The callers' inputs                                                     *)
(***************************************************************************)

Str_hi     == <<"h", "i">>
Str_padded == <<" ", "a", " ">>
Str_14     == <<"1", "4">>
Str_neg14  == <<"-", "1", "4">>
Str_255    == <<"2", "5", "5">>
Str_256    == <<"2", "5", "6">>
Str_true   == <<"t", "r", "u", "e">>
Str_x      == <<"x">>
Str_ints   == <<"1", ",", " ", "-", "2">>
Str_badint == <<"1", ",", "x">>
Str_uints  == <<"0", ",", "1">>
Str_baduint == <<"0", ",", "-", "4">>
Str_12m    == <<"1", "2", "m">>
Str_30min  == <<"3", "0", "m", "i", "n">>

\* The values tried for a key of type t; the first one parses.
Samples(t) ==
    IF t = "string" THEN <<Str_hi, << >>, Str_padded>>
    ELSE IF t = "uint" THEN <<Str_14, Str_neg14, << >>>>
    ELSE IF t = "uint8" THEN <<Str_255, Str_256>>
    ELSE IF t = "bool" THEN <<Str_true, Str_x, << >>>>
    ELSE IF t = "[]int" THEN <<Str_ints, Str_badint, << >>>>
    ELSE IF t = "[]uint" THEN <<Str_uints, Str_baduint>>
    ELSE IF t = "Duration" THEN <<Str_12m, Str_30min, << >>>>
    ELSE IF t \in {"Time", "main.Time"} THEN <<Str_12m, << >>>>
    ELSE <<Str_hi>>

\* The tagged leaf fields under type t in declaration order, depth-first,
\* each with the key composed of the tags on the way down, the names of the
\* fields on the way down, and the type handed to the parser.
RECURSIVE Leaves(_, _, _, _)

LeafOf(f, base, B, prefix, path, hooked) ==
    IF f.tag = "" THEN << >>
    ELSE IF B.kind = "struct" /\ B.name # "Time"
    THEN Leaves(base, prefix \o f.tag, Append(path, f.name),
                hooked \/ B.hook # "")
    ELSE <<[key |-> prefix \o f.tag, type |-> base,
            path |-> Append(path, f.name), hooked |-> hooked]>>

LeafUnder(f, base, prefix, path, hooked) ==
    LeafOf(f, base, TypeTable[base], prefix, path, hooked)

LeafAt(f, FT, prefix, path, hooked) ==
    LeafUnder(f, IF FT.kind = "ptr" THEN FT.elem ELSE f.type, prefix, path,
              hooked)

RECURSIVE LeavesFrom(_, _, _, _, _)
LeavesFrom(fields, prefix, path, hooked, i) ==
    IF i > Len(fields) THEN << >>
    ELSE LeafAt(fields[i], TypeTable[fields[i].type], prefix, path, hooked)
         \o LeavesFrom(fields, prefix, path, hooked, i + 1)

\* `hooked` tells that a struct on the way down has the UnmarshalEnv method.
Leaves(t, prefix, path, hooked) ==
    LeavesFrom(TypeTable[t].fields, prefix, path, hooked, 1)

\* The tagged leaves of the whole type t, from the empty prefix.
LeavesOf(t) == Leaves(t, "", << >>, FALSE)

\* The keys an environment for a target of type t is made of: those of its
\* tagged leaves and those its hooks read.
EnvKeys(t) ==
    LeavesOf(t) \o
    (IF t = "Config"
     THEN <<[key |-> "ENV_MARSHALER_OBJ1_B", type |-> "string",
             path |-> << >>, hooked |-> TRUE]>>
     ELSE IF t = "StampedObj"
     THEN <<[key |-> "STAMP_SEC", type |-> "uint",
             path |-> << >>, hooked |-> FALSE]>>
     ELSE << >>)

\* For each key of L, 0 (unset) or the index of one of its samples: at most
\* MaxFaults of them other than 1, the sample that parses.
Choices(L) ==
    {f \in [1..Len(L) -> 0..3] :
        /\ \A i \in 1..Len(L) : f[i] <= Len(Samples(L[i].type))
        /\ Cardinality({i \in 1..Len(L) : f[i] # 1}) <= MaxFaults}

EnvOf(L, f) ==
    [k \in {L[i].key : i \in {j \in 1..Len(L) : f[j] # 0}} |->
        Samples(L[CHOOSE i \in 1..Len(L) : L[i].key = k].type)
               [f[CHOOSE i \in 1..Len(L) : L[i].key = k]]]

EnvsOver(L) == {EnvOf(L, f) : f \in Choices(L)}

EnvsFor(t) == EnvsOver(EnvKeys(t))

\* A value of type t none of whose parts is a zero value.
RECURSIVE Filled(_)
RECURSIVE FilledFields(_, _)
FilledFields(fields, i) ==
    IF i > Len(fields) THEN << >>
    ELSE <<Filled(fields[i].type)>> \o FilledFields(fields, i + 1)

FilledOf(T) ==
    IF T.name = "Duration" /\ T.std THEN [neg |-> FALSE, sec |-> 1, ns |-> 0]
    ELSE IF T.kind = "string" THEN <<"o", "l", "d">>
    ELSE IF T.kind = "bool" THEN TRUE
    ELSE IF T.kind \in UintKinds \cup IntKinds THEN 7
    ELSE IF T.kind = "struct" THEN FilledFields(T.fields, 1)
    ELSE IF T.kind = "ptr" THEN PtrTo(Filled(T.elem))
    ELSE IF T.kind = "slice" THEN SliceOf(<<Filled(T.elem)>>)
    ELSE SliceOf(<< >>)

Filled(t) == FilledOf(TypeTable[t])

\* The types of the objects the callers hand in.
StructTargets ==
    {"Obj1", "Obj2", "NestedObj1", "NestedObj2", "DeepObj", "UntaggedObj",
     "Config", "TimedObj", "StampedObj", "LoggedObj"}

HookTargets == {"EnvMarshalerObj1", "EnvMarshalerObj2", "EagerObj"}

PlainTargets ==
    {"NonEnvMarshaler", "string", "uint8", "[]int", "*string", "Duration",
     "main.Duration", "text.Duration"}

TargetTypes == StructTargets \cup HookTargets \cup PlainTargets

\* The strings handed to DefaultParser.Unmarshal.
ParserStrs ==
    {Str_hi, Str_padded, Str_255, Str_256, Str_ints, Str_12m, << >>}

(***************************************************************************)
(* The state machine                                                       *)
(***************************************************************************)

VARIABLES
    env,      \* the environment: key -> value, for the keys that are set
    target,   \* the caller's object: [type, val]
    pre,      \* the caller's object when the last call was made
    call,     \* the last call: [op, byPtr, str]
    ret,      \* how it ended: [st, err]
    trace,    \* what it did: [lookups, parses, hookCalls, hookLookups, writes]
    arg,      \* the arguments of the calls of ParseType or HasKeys
    out,      \* what these calls returned, in call order
    heap      \* the cells allocated: address -> value

vars == <<env, target, pre, call, ret, trace, arg, out, heap>>

NoArg == [str |-> << >>, type |-> "", keys |-> << >>]

NoTrace ==
    [lookups |-> << >>, parses |-> << >>, hookCalls |-> << >>,
     hookLookups |-> << >>, writes |-> 0]

Init ==
    \E t \in TargetTypes :
        /\ env \in EnvsFor(t)
        /\ target \in {[type |-> t, val |-> v] : v \in {Zero(t), Filled(t)}}
        /\ pre = target.val
        /\ call = [op |-> "none", byPtr |-> FALSE, str |-> << >>]
        /\ ret = [st |-> "none", err |-> NoError]
        /\ trace = NoTrace
        /\ arg = NoArg
        /\ out = << >>
        /\ heap = << >>

\* The call op has returned d.
Returned(op, byPtr, str, d) ==
    /\ pre' = target.val
    /\ target' = [target EXCEPT !.val = d.val]
    /\ call' = [op |-> op, byPtr |-> byPtr, str |-> str]
    /\ ret' = [st |-> d.st, err |-> d.err]
    /\ trace' = [lookups |-> d.lookups, parses |-> d.parses,
                 hookCalls |-> d.hookCalls, hookLookups |-> d.hookLookups,
                 writes |-> d.writes]
    /\ UNCHANGED <<env, arg, out, heap>>

\* marshaler.Unmarshal(&obj) or marshaler.Unmarshal(obj)
Unmarshal(byPtr) ==
    Returned("Unmarshal", byPtr, << >>,
             MarshalerUnmarshal(env, target.type, target.val, byPtr))

\* parser.Unmarshal(str, &obj) or parser.Unmarshal(str, obj)
Parse(str, byPtr) ==
    Returned("Parse", byPtr, str,
             ParserUnmarshal(str, target.type, target.val, byPtr))

Next ==
    \/ \E byPtr \in BOOLEAN : Unmarshal(byPtr)
    \/ \E str \in ParserStrs, byPtr \in BOOLEAN : Parse(str, byPtr)

Spec == Init /\ [][Next]_vars

(***************************************************************************)
(* DefaultParser.ParseType called on its own                               *)
(***************************************************************************)

MaxLen == 3

MaxCalls == 2

\* The strings of at most n characters of the alphabet A.
Strs(A, n) == UNION {[1..k -> A] : k \in 0..n}

Chars(str) == [i \in 1..Len(str) |-> SubSeq(str, i, i)]

\* The characters the strings for a type are made of.
Alphabet(T) ==
    IF T.name = "Duration" THEN {"1", "5", "h", "m", "s", "-", "."}
    ELSE IF T.kind = "bool" THEN {"t", "T", "f", "F", "0", "1", "y"}
    ELSE IF T.kind = "string" THEN {" ", "a", ",", "\t"}
    ELSE IF T.kind \in UintKinds \cup IntKinds
    THEN {"0", "1", "9", "-", "+", ".", "a", " "}
    ELSE IF T.kind \in FloatKinds THEN {"0", "1", ".", "-", "a"}
    ELSE IF T.kind \in {"slice", "array"} THEN {",", " ", "1", "-", "a"}
    ELSE IF T.kind = "ptr" THEN {"1", "t", " ", "-"}
    ELSE {"1", "a"}

\* Numerals at the ends of the ranges of the integer types.
Numerals ==
    {<<"2", "5", "5">>, <<"2", "5", "6">>, <<"0", "2", "5", "5">>,
     <<"1", "2", "7">>, <<"1", "2", "8">>, <<"1", "2", "9">>,
     <<"6", "5", "5", "3", "5">>, <<"6", "5", "5", "3", "6">>,
     <<"3", "2", "7", "6", "7">>, <<"3", "2", "7", "6", "8">>,
     <<"3", "2", "7", "6", "9">>,
     <<"4", "2", "9", "4", "9", "6", "7", "2", "9", "5">>,
     <<"4", "2", "9", "4", "9", "6", "7", "2", "9", "6">>,
     <<"2", "1", "4", "7", "4", "8", "3", "6", "4", "7">>,
     <<"2", "1", "4", "7", "4", "8", "3", "6", "4", "8">>,
     <<"2", "1", "4", "7", "4", "8", "3", "6", "4", "9">>,
     Chars("18446744073709551615"), Chars("18446744073709551616"),
     Chars("9223372036854775807"), Chars("9223372036854775808"),
     Chars("9223372036854775809"), Chars("99999999999999999999"),
     Chars("0000000000000000000000007")}

Words ==
    {Chars("true"), Chars("false"), Chars("tRUE"), Chars("FALSE"),
     Chars("True"), Chars("TRUE"), Chars("False"), Chars("fALSE"),
     Chars("yes"), Chars("no"), Chars("not_true"), Chars("truee"),
     Chars(" true"), Chars("true "), Chars("on"), Chars("1.0")}

Literals ==
    {Chars("12m"), Chars("1h2m200us"), Chars("-1h30m"), Chars("+1h30m"),
     Chars("s"), Chars("h3ms"), Chars("30min"), Chars("2 hours"),
     Chars("1h-30m10s"), Chars("5"), Chars("0"), Chars("1.5h"),
     Chars("1h2m0.0002s"), Chars("200ns"), Chars("3ms"), Chars("--1h"),
     Chars("1h 2m"), Chars(".5s"), Chars("1.s"), Chars(".s")}

Decimals ==
    {Chars("3.14159"), Chars("-200.12"), Chars("+Inf"), Chars("NaN"),
     Chars("infinity"), Chars("hello"), Chars("1..2"),
     Chars("340282346638528859811704183484516925440"),
     Chars("340282346638528859811704183484516925440.5"),
     Chars("1000000000000000000000000000000000000000")}

Lists ==
    {Chars("1, -2, 100, 3"), Chars("1,2,"), Chars(" a , b "), Chars("a,,b"),
     Chars("1,x,y"), Chars("x,1"), Chars("255,256,x"), Chars("0,1,-4,x"),
     Chars("x,1h"), Chars("1h,x"), Chars("1h")}

\* The strings handed to ParseType for the type t.
ParseInputs(T) ==
    Strs(Alphabet(T), MaxLen) \cup
    (IF T.name = "Duration" THEN Literals
     ELSE IF T.kind = "bool" THEN Words
     ELSE IF T.kind \in UintKinds \cup IntKinds
     THEN Numerals \cup {<<"-">> \o n : n \in Numerals} \cup {Chars("123.0")}
     ELSE IF T.kind \in FloatKinds THEN Decimals
     ELSE IF T.kind \in {"slice", "array"} THEN Lists
     ELSE IF T.kind = "ptr" THEN {Chars("255"), Chars("256"), Chars("12m")}
     ELSE {Chars("hello")})

ParseTypes ==
    {"string", "bool", "uint", "uint8", "uint16", "uint32", "uint64",
     "int", "int8", "int16", "int32", "int64", "Duration",
     "[]string", "[]int", "[]uint", "[]uint8", "[]Obj1",
     "[]map[string]string", "*string", "*uint8", "*bool", "*Duration",
     "*[]uint", "*Obj1", "*map[string]string", "Obj1", "map[string]string",
     "chan int", "func()", "complex128", "uintptr", "main.Duration",
     "[]main.Duration", "float32", "float64", "[]float64", "[3]int",
     "[2]string"}

ParseArgs ==
    UNION {{[str |-> str, type |-> t, keys |-> << >>] :
               str \in ParseInputs(TypeTable[t])} : t \in ParseTypes}

\* A cell the caller holds before the first call.
CallerHeap == <<7>>

ParseInit ==
    /\ arg \in ParseArgs
    /\ out = << >>
    /\ heap = CallerHeap
    /\ env = << >>
    /\ target = [type |-> "string", val |-> << >>]
    /\ pre = << >>
    /\ call = [op |-> "none", byPtr |-> FALSE, str |-> << >>]
    /\ ret = [st |-> "none", err |-> NoError]
    /\ trace = NoTrace

ParseTypeReturned(x) ==
    /\ out' = Append(out, x.res)
    /\ heap' = x.heap
    /\ UNCHANGED <<env, target, pre, call, ret, trace, arg>>

\* parser.ParseType(str, t), once more with the same arguments
ParseTypeCall ==
    /\ Len(out) < MaxCalls
    /\ ParseTypeReturned(ParseTypeOn(heap, ParseType(arg.str, arg.type),
                                     TypeTable[arg.type]))

ParseNext == ParseTypeCall

ParseSpec == ParseInit /\ [][ParseNext]_vars

(***************************************************************************)
(* OsEnvReader.HasKeys                                                     *)
(***************************************************************************)

MaxKeys == 3

KeyNames == {"A", "B", "C"}

\* The environments over KeyNames: a key is unset, set to "", or set to "x".
KeyEnvs ==
    UNION {[K -> {<< >>, <<"x">>}] : K \in SUBSET KeyNames}

KeysInit ==
    /\ env \in KeyEnvs
    /\ arg \in {[str |-> << >>, type |-> "", keys |-> ks] :
                   ks \in Strs(KeyNames, MaxKeys)}
    /\ out = << >>
    /\ heap = << >>
    /\ target = [type |-> "string", val |-> << >>]
    /\ pre = << >>
    /\ call = [op |-> "none", byPtr |-> FALSE, str |-> << >>]
    /\ ret = [st |-> "none", err |-> NoError]
    /\ trace = NoTrace

\* env.HasKeys(keys)
HasKeysCall ==
    /\ out = << >>
    /\ out' = <<HasKeys(env, arg.keys)>>
    /\ UNCHANGED <<env, target, pre, call, ret, trace, arg, heap>>

KeysNext == HasKeysCall

KeysSpec == KeysInit /\ [][KeysNext]_vars

(***************************************************************************)
(* The recursion of unmarshalStruct, call by call                          *)
(*                                                                         *)
(* `out` is the stack of the calls of unmarshalStruct that have not        *)
(* returned, the innermost last: the type t, the envPrefix and the index i *)
(* of the loop.  `call.op` is "walking" while the loops run, "unwinding"   *)
(* while an error is on its way up, and "returned" when Unmarshal is done. *)
(***************************************************************************)

MaxDepth == 5

Frame(t, envPrefix, i) == [t |-> t, envPrefix |-> envPrefix, i |-> i]

Top == out[Len(out)]

TopFields == TypeTable[Top.t].fields

\* fieldStruct of the loop of the innermost call, and the type that
\* unmarshalField hands to unmarshalNonPtr for it.
TopField == TopFields[Top.i]

BaseOf(f) ==
    IF TypeTable[f.type].kind = "ptr" THEN TypeTable[f.type].elem ELSE f.type

\* unmarshalNonPtr calls unmarshalStruct for the field.
IsStructField(f) ==
    /\ TypeTable[BaseOf(f)].kind = "struct"
    /\ TypeTable[BaseOf(f)].name # "Time"

Walking == call.op = "walking" /\ out # << >>

InLoop == Walking /\ Top.i <= Len(TopFields)

\* The environments for the types that hold themselves: the keys of V at
\* the first depths, each set or not.
ChainKeys == {"V", "N_V", "N_N_V"}

ChainEnvs == UNION {[K -> {Str_14}] : K \in SUBSET ChainKeys}

WalkTargets == StructTargets \cup {"Node", "Chain"}

WalkEnvs(t) == IF t \in {"Node", "Chain"} THEN ChainEnvs ELSE EnvsFor(t)

WalkInit ==
    \E t \in WalkTargets :
        /\ env \in WalkEnvs(t)
        /\ target = [type |-> t, val |-> Zero("string")]
        /\ pre = target.val
        /\ call = [op |-> "walking", byPtr |-> TRUE, str |-> << >>]
        /\ ret = [st |-> "none", err |-> NoError]
        /\ trace = NoTrace
        /\ arg = NoArg
        /\ out = <<Frame(t, "", 1)>>
        /\ heap = << >>

WalkAdvanced(stack) == [stack EXCEPT ![Len(stack)].i = stack[Len(stack)].i + 1]

Popped == SubSeq(out, 1, Len(out) - 1)

\* if fieldEnvTag == "" { continue }
WalkSkip ==
    /\ InLoop
    /\ TopField.tag = ""
    /\ out' = WalkAdvanced(out)
    /\ UNCHANGED <<env, target, pre, call, ret, trace, arg, heap>>

\* unmarshalField for a field that unmarshalNonPtr hands to unmarshalType,
\* r what it returned: the loop goes on, unmarshalStruct returns the error,
\* or the panic of the parser ends every call.
WalkLeafDone(r) ==
    /\ trace' = [trace EXCEPT !.lookups = @ \o r.lookups,
                              !.parses = @ \o r.parses]
    /\ IF r.st = "ok"
       THEN /\ out' = WalkAdvanced(out)
            /\ UNCHANGED <<call, ret>>
       ELSE IF r.st = "err"
       THEN /\ out' = Popped
            /\ call' = [call EXCEPT !.op = "unwinding"]
            /\ ret' = [st |-> "none", err |-> r.err]
       ELSE /\ out' = << >>
            /\ call' = [call EXCEPT !.op = "returned"]
            /\ ret' = [st |-> "panic", err |-> r.err]
    /\ UNCHANGED <<env, target, pre, arg, heap>>

\* The calls of unmarshalStruct a walk of t from envPrefix makes, at most d
\* of them open at a time.
RECURSIVE WalkFrames(_, _, _)
WalkInner(t, envPrefix, d) ==
    UNION {WalkFrames(BaseOf(TypeTable[t].fields[i]),
                      envPrefix \o TypeTable[t].fields[i].tag, d - 1) :
           i \in {j \in 1..Len(TypeTable[t].fields) :
                     /\ TypeTable[t].fields[j].tag # ""
                     /\ IsStructField(TypeTable[t].fields[j])}}

WalkFrames(t, envPrefix, d) ==
    {Frame(t, envPrefix, 1)} \cup
    (IF d = 1 THEN {} ELSE WalkInner(t, envPrefix, d))

\* The calls of unmarshalField that go on to unmarshalType in a walk of t:
\* the fieldStruct and the fieldEnvTag.
LeafCallsIn(fr) ==
    {<<TypeTable[fr.t].fields[i], fr.envPrefix \o TypeTable[fr.t].fields[i].tag>> :
        i \in {j \in 1..Len(TypeTable[fr.t].fields) :
                  /\ TypeTable[fr.t].fields[j].tag # ""
                  /\ ~IsStructField(TypeTable[fr.t].fields[j])}}

LeafCallsOf(t) == UNION {LeafCallsIn(fr) : fr \in WalkFrames(t, "", MaxDepth)}

\* unmarshalField, tabulated over the calls the walks make.
unmarshalFieldTable ==
    [t \in WalkTargets |->
        [e \in WalkEnvs(t) |->
            [c \in LeafCallsOf(t) |-> unmarshalField(e, c[1], c[2])]]]

WalkLeaf ==
    /\ InLoop
    /\ TopField.tag # ""
    /\ ~IsStructField(TopField)
    /\ WalkLeafDone(unmarshalFieldTable[target.type][env]
                        [<<TopField, Top.envPrefix \o TopField.tag>>])

\* unmarshalNonPtr calls unmarshalStruct(fieldType, fieldEnvTag).
WalkEnter ==
    /\ InLoop
    /\ TopField.tag # ""
    /\ IsStructField(TopField)
    /\ Len(out) < MaxDepth
    /\ out' = Append(out, Frame(BaseOf(TopField),
                                Top.envPrefix \o TopField.tag, 1))
    /\ UNCHANGED <<env, target, pre, call, ret, trace, arg, heap>>

\* An inner unmarshalStruct whose loop is over and that does not return.
WalkReturn_NeverReturns ==
    /\ Walking
    /\ Top.i > Len(TopFields)
    /\ Len(out) > 1
    /\ UNCHANGED <<env, target, pre, call, ret, trace, arg, out, heap>>

\* The loop of an inner unmarshalStruct is over: return val, nil; the loop
\* of the caller sets the field and goes on.
WalkReturn ==
    /\ Walking
    /\ Top.i > Len(TopFields)
    /\ Len(out) > 1
    /\ out' = WalkAdvanced(Popped)
    /\ UNCHANGED <<env, target, pre, call, ret, trace, arg, heap>>

\* The loop of the outermost unmarshalStruct is over: Unmarshal returns nil.
WalkFinish ==
    /\ Walking
    /\ Top.i > Len(TopFields)
    /\ Len(out) = 1
    /\ out' = << >>
    /\ call' = [call EXCEPT !.op = "returned"]
    /\ ret' = [st |-> "ok", err |-> NoError]
    /\ UNCHANGED <<env, target, pre, trace, arg, heap>>

\* An error comes back to the caller at its field f: unmarshalNonPtr and
\* unmarshalField wrap it.
WalkWrapped(f, fieldEnvTag) ==
    unmarshalFieldSet(
        unmarshalNonPtrStruct(
            Outcome("err", Nil, ret.err, << >>, << >>),
            fieldEnvTag, TypeTable[BaseOf(f)].name),
        TypeTable[f.type].kind = "ptr", f.name).err

\* if err != nil { return val, err } in the loop of the caller.
WalkUnwind ==
    /\ call.op = "unwinding"
    /\ out # << >>
    /\ ret' = [ret EXCEPT !.err = WalkWrapped(TopField,
                                              Top.envPrefix \o TopField.tag)]
    /\ out' = Popped
    /\ UNCHANGED <<env, target, pre, call, trace, arg, heap>>

\* The error has come back to Unmarshal, which returns it.
WalkFail ==
    /\ call.op = "unwinding"
    /\ out = << >>
    /\ call' = [call EXCEPT !.op = "returned"]
    /\ ret' = [ret EXCEPT !.st = "err"]
    /\ UNCHANGED <<env, target, pre, trace, arg, out, heap>>

WalkNext ==
    \/ WalkSkip
    \/ WalkLeaf
    \/ WalkEnter
    \/ WalkReturn
    \/ WalkFinish
    \/ WalkUnwind
    \/ WalkFail

\* A call that has not returned goes on.
WalkSpec == WalkInit /\ [][WalkNext]_vars /\ WF_vars(WalkNext)

(***************************************************************************)
(* Properties                                                              *)
(*                                                                         *)
(* Each is about the call that has just returned: `call` says which, `pre` *)
(* what the caller's object held when it was made, `trace` what it did.    *)
(***************************************************************************)

MissingKeyMsg == "cannot retrieve any value from environment var %s"
ParseFailMsg  == "cannot unmarshal %s to type %s (Env: %s)"
FieldMsg      == "error unmarshaling field %s"
NotStructMsg  == "cannot unmarshal non-struct, non-EnvMarshaler objects"
UnsettableMsgs ==
    {"Cannot serialize into an unsettable %s type.",
     "Cannot serialize into an unsettable type."}

\* The call was DefaultEnvMarshaler.Unmarshal on an object of a struct type
\* without the UnmarshalEnv method.
Walked ==
    /\ call.op = "Unmarshal"
    /\ TypeTable[target.type].kind = "struct"
    /\ ~implementsUnmarshal(target.type)

\* The environment makes this leaf fail: its key is not set, or its value
\* does not parse as the leaf's type.
LeafMissing(leaf) == leaf.key \notin DOMAIN env

LeafBad(leaf) ==
    LeafMissing(leaf) \/ ParseType(env[leaf.key], leaf.type).st # "ok"

BadLeaves(L) == {i \in 1..Len(L) : LeafBad(L[i])}

Least(S) == CHOOSE x \in S : \A y \in S : x <= y

Range(q) == {q[i] : i \in 1..Len(q)}

\* The key an error of unmarshalType names.
NamesKey(err, key) ==
    \E i \in 1..Len(err) :
        \/ err[i].msg = MissingKeyMsg /\ err[i].args = <<key>>
        \/ err[i].msg = ParseFailMsg /\ err[i].args[3] = key

\* The names of the fields an error went up through, outermost first.
IsFieldLayer(layer) == layer.msg = FieldMsg

FieldPath(err) ==
    [i \in 1..Len(SelectSeq(err, IsFieldLayer)) |->
        SelectSeq(err, IsFieldLayer)[i].args[1]]

\* C1: a walk of &obj that returns an error leaves obj as it was; obj is
\* written at most once, and only after every tagged leaf has been looked up
\* and parsed successfully.
C1_Holds(L) ==
    /\ trace.writes <= 1
    /\ ret.st = "err" => (target.val = pre /\ trace.writes = 0)
    /\ trace.writes = 1 =>
          /\ ret.st = "ok"
          /\ Len(trace.lookups) = Len(L)
          /\ Len(trace.parses) = Len(L)
          /\ \A i \in 1..Len(L) :
                /\ ~LeafBad(L[i])
                /\ trace.lookups[i] = L[i].key
                /\ trace.parses[i] = [str |-> env[L[i].key], type |-> L[i].type]

C1_WrittenOnlyOnSuccess ==
    (Walked /\ call.byPtr) => C1_Holds(LeavesOf(target.type))

\* C1's case: a walk two levels down failed after some fields had been
\* parsed, on an object none of whose fields was zero.
C1_Witness ==
    /\ Walked /\ call.byPtr
    /\ target.type = "DeepObj"
    /\ pre = Filled("DeepObj")
    /\ ret.st = "err"
    /\ Len(trace.parses) >= 2

\* C2: when the key of a tagged leaf that is no struct is not set, the walk
\* fails with the missing-key error naming exactly that key, and ParseType
\* is not called for the leaf; no tagged leaf may be left unset.
C2_Holds(L, n) ==
    /\ (\E i \in 1..Len(L) : LeafMissing(L[i])) => ret.st = "err"
    /\ \A i \in 1..n :
          trace.lookups[i] \notin DOMAIN env =>
             /\ i = n
             /\ ret.st = "err"
             /\ ret.err[Len(ret.err)] =
                   [msg |-> MissingKeyMsg, args |-> <<L[n].key>>]
             /\ Len(trace.parses) = n - 1

C2_MissingKeyFails ==
    Walked => C2_Holds(LeavesOf(target.type), Len(trace.lookups))

\* C2's case: the key of a pointer-to-slice field below the root is not
\* set, the fields before it were parsed.
C2_Witness ==
    /\ Walked /\ call.byPtr
    /\ target.type = "NestedObj2"
    /\ "NESTED_OBJ2_C" \notin DOMAIN env
    /\ Len(trace.lookups) = 7
    /\ trace.lookups[7] = "NESTED_OBJ2_C"
    /\ ret.st = "err"

\* C3: the key looked up for a leaf is the concatenation of the tags of the
\* enclosing fields, outermost first, and its own tag, without separator, at
\* every depth and through pointers as through structs.
C3_Holds(L) ==
    /\ \A i \in 1..Len(trace.lookups) : trace.lookups[i] = L[i].key
    /\ target.type = "NestedObj1" /\ Len(trace.lookups) >= 2 =>
          trace.lookups[2] = "NESTED_OBJ1_B"
    /\ target.type = "NestedObj2" /\ Len(trace.lookups) >= 2 =>
          trace.lookups[2] = "NESTED_OBJ2_OBJ1_B"
    /\ target.type = "DeepObj" /\ Len(trace.lookups) >= 2 =>
          trace.lookups[2] = "DEEP_NESTED_OBJ1_B"
    /\ target.type = "Obj1" /\ Len(trace.lookups) >= 2 =>
          trace.lookups[2] = "OBJ1_B"

C3_KeysAreConcatenatedTags ==
    Walked => C3_Holds(LeavesOf(target.type))

\* C3's case: a walk through a pointer to a struct that holds a struct has
\* looked up every leaf.
C3_Witness ==
    /\ Walked /\ call.byPtr
    /\ target.type = "DeepObj"
    /\ ret.st = "ok"
    /\ trace.lookups[2] = "DEEP_NESTED_OBJ1_B"
    /\ trace.lookups[6] = "DEEP_NESTED_OBJ1_F"

\* C4: Unmarshal(&obj) of a type with the UnmarshalEnv method calls the
\* method once and returns what it returns; Unmarshal itself looks nothing
\* up, parses nothing and writes nothing, whatever tags the fields carry and
\* whether or not the type is a struct.
C4_HookDecides ==
    (call.op = "Unmarshal" /\ call.byPtr /\ implementsUnmarshal(target.type)) =>
        /\ trace.hookCalls = <<target.type>>
        /\ trace.lookups = << >>
        /\ trace.parses = << >>
        /\ trace.writes = 0
        /\ target.type = "EnvMarshalerObj1" =>
              /\ trace.hookLookups = <<"ENV_MARSHALER_OBJ1_B">>
              /\ IF "ENV_MARSHALER_OBJ1_B" \in DOMAIN env
                 THEN /\ ret = [st |-> "ok", err |-> NoError]
                      /\ target.val = <<3, env["ENV_MARSHALER_OBJ1_B"]>>
                 ELSE /\ ret.st = "err"
                      /\ Len(ret.err) = 1
                      /\ ret.err[1].msg \notin
                            {MissingKeyMsg, ParseFailMsg, FieldMsg, NotStructMsg}
                      /\ target.val = pre
        /\ target.type = "EnvMarshalerObj2" =>
              /\ trace.hookLookups = << >>
              /\ ret = [st |-> "ok", err |-> NoError]
              /\ target.val = 1

\* C4's case: the key of the tagged field A is set to a number, and A holds
\* what the method gave it.
C4_Witness ==
    /\ call.op = "Unmarshal" /\ call.byPtr
    /\ target.type = "EnvMarshalerObj1"
    /\ "ENV_MARSHALER_OBJ1_A" \in DOMAIN env
    /\ env["ENV_MARSHALER_OBJ1_A"] = Str_14
    /\ ret.st = "ok"
    /\ target.val[1] = 3

\* C5: a tagged field whose type, or the type it points to, has the
\* UnmarshalEnv method is populated by that method: the walk calls it and
\* looks up no key of the leaves under the field.
C5_Holds(L) ==
    /\ \A i \in 1..Len(L) : L[i].hooked => L[i].key \notin Range(trace.lookups)
    /\ (\E i \in 1..Len(L) : L[i].hooked) => trace.hookCalls # << >>

C5_NestedHookDecides ==
    (Walked /\ call.byPtr) => C5_Holds(LeavesOf(target.type))

\* C6: the lookups are a prefix of the leaves in declaration order, depth
\* first; the walk stops at the first leaf that fails, and the error is that
\* leaf's, whatever is wrong with the leaves after it.
C6_Stops(L, n, first) ==
    /\ n = first
    /\ ret.st = "err"
    /\ NamesKey(ret.err, L[first].key)
    /\ FieldPath(ret.err) = L[first].path
    /\ Len(trace.parses) = IF LeafMissing(L[first]) THEN first - 1 ELSE first

C6_Holds(L, n, bad) ==
    /\ n <= Len(L)
    /\ \A i \in 1..n : trace.lookups[i] = L[i].key
    /\ \A i \in 1..Len(trace.parses) : trace.parses[i].type = L[i].type
    /\ IF bad = {} THEN n = Len(L) /\ ret.st # "err"
       ELSE C6_Stops(L, n, Least(bad))

C6_FirstFailureInOrder ==
    Walked => C6_Holds(LeavesOf(target.type), Len(trace.lookups),
                       BadLeaves(LeavesOf(target.type)))

\* C6's case: two leaves fail, the first of them below the root and after
\* leaves that parse, and there are leaves after it.
C6_Witness ==
    /\ Walked /\ call.byPtr
    /\ target.type \in {"NestedObj1", "NestedObj2", "DeepObj"}
    /\ Cardinality(BadLeaves(LeavesOf(target.type))) >= 2
    /\ Len(trace.lookups) >= 2
    /\ Len(trace.lookups) < Len(LeavesOf(target.type))
    /\ Len(FieldPath(ret.err)) >= 2
    /\ ret.st = "err"

\* C7: a field without tag is not bound: nothing is looked up or parsed for
\* it whatever its type, it cannot make the walk fail, and it is zero in the
\* object written on success.
C7_Holds(T, L) ==
    /\ Len(trace.lookups) <= Len(L)
    /\ Len(trace.parses) <= Len(L)
    /\ Range(trace.lookups) \subseteq {L[i].key : i \in 1..Len(L)}
    /\ \A i \in 1..Len(trace.parses) : trace.parses[i].type = L[i].type
    /\ BadLeaves(L) = {} => ret.st = "ok"
    /\ ret.st = "ok" =>
          \A i \in 1..Len(T.fields) :
              T.fields[i].tag = "" => target.val[i] = Zero(T.fields[i].type)

C7_UntaggedFieldsSkipped ==
    (Walked /\ call.byPtr) =>
        C7_Holds(TypeTable[target.type], LeavesOf(target.type))

\* C7's case: untagged fields of a map, a struct and a pointer type, none
\* of them zero before the call, are zero after it.
C7_Witness ==
    /\ Walked /\ call.byPtr
    /\ target.type = "UntaggedObj"
    /\ pre = Filled("UntaggedObj")
    /\ ret.st = "ok"
    /\ target.val[1] = Nil
    /\ target.val[3] = Zero("Obj1")
    /\ target.val[2] = 255

\* C8: Unmarshal of a pointer to a type that has no UnmarshalEnv method and
\* is no struct returns the not-a-struct error, looks nothing up, and leaves
\* the object as it was.
C8_NotStructError ==
    (/\ call.op = "Unmarshal"
     /\ call.byPtr
     /\ ~implementsUnmarshal(target.type)
     /\ TypeTable[target.type].kind # "struct") =>
        /\ ret = [st |-> "err", err |-> Errorf(NotStructMsg, << >>)]
        /\ trace.lookups = << >>
        /\ trace.hookLookups = << >>
        /\ trace.parses = << >>
        /\ trace.writes = 0
        /\ target.val = pre

\* C8's case: a named uint that holds a value.
C8_Witness ==
    /\ call.op = "Unmarshal" /\ call.byPtr
    /\ target.type = "NonEnvMarshaler"
    /\ pre = 7
    /\ ret.st = "err"

\* C9: Unmarshal of an object passed by value (a struct, or an object of a
\* type whose pointer has the UnmarshalEnv method) returns an error as its
\* result, whatever the environment holds.
C9_ByValueReturnsError ==
    (/\ call.op = "Unmarshal"
     /\ ~call.byPtr
     /\ TypeTable[target.type].kind # "ptr") =>
        ret.st = "err"

\* C10: DefaultParser.Unmarshal(str, obj) of an object passed by value
\* returns the unsettable error for every type and every str, before
\* anything is parsed, and the object is as it was.
C10_UnsettableError ==
    (/\ call.op = "Parse"
     /\ ~call.byPtr
     /\ TypeTable[target.type].kind # "ptr") =>
        /\ ret.st = "err"
        /\ Len(ret.err) = 1
        /\ ret.err[1].msg \in UnsettableMsgs
        /\ trace.parses = << >>
        /\ trace.writes = 0
        /\ target.val = pre

\* C10's case: a str that parses as the type of the object.
C10_Witness ==
    /\ call.op = "Parse" /\ ~call.byPtr
    /\ target.type = "uint8"
    /\ call.str = Str_255
    /\ ParseType(call.str, "uint8").st = "ok"
    /\ ret.st = "err"

(***************************************************************************)
(* Properties of ParseType (under ParseSpec) and HasKeys (under KeysSpec)  *)
(*                                                                         *)
(* `arg` holds the arguments, out[c] what call c returned.  What a string  *)
(* denotes is written down here on its own, apart from the parser's code.  *)
(***************************************************************************)

ArgType == TypeTable[arg.type]

\* The places of the commas of s, and the place of its i-th comma (0 before
\* the first part, Len(s) + 1 after the last).
CommasOf(s) == {j \in 1..Len(s) : s[j] = ","}

CommaAt(s, i) ==
    IF i = 0 THEN 0
    ELSE IF i > Cardinality(CommasOf(s)) THEN Len(s) + 1
    ELSE CHOOSE j \in CommasOf(s) :
             Cardinality({k \in CommasOf(s) : k < j}) = i - 1

\* The i-th comma-separated part of s, and a string without the whitespace
\* around it.
PartOf(s, i) == SubSeq(s, CommaAt(s, i - 1) + 1, CommaAt(s, i) - 1)

Inked(p) == {j \in 1..Len(p) : p[j] \notin {" ", "\t", "\n", "\r"}}

Stripped(p) ==
    IF Inked(p) = {} THEN << >>
    ELSE SubSeq(p, Least(Inked(p)),
                CHOOSE j \in Inked(p) : \A k \in Inked(p) : k <= j)

\* What the i-th part of the string gives when parsed as the element type.
PartParsed(i) == ParseType(Stripped(PartOf(arg.str, i)), ArgType.elem)

PartCount == Cardinality(CommasOf(arg.str)) + 1

FailingParts == {i \in 1..PartCount : PartParsed(i).st # "ok"}

\* C11: ParseType into a slice gives no element for the empty string,
\* whatever the element type; for another string it gives one element for
\* each comma-separated part, in order: the part without the whitespace
\* around it, parsed as the element type.
C11_Elements(r) ==
    IF arg.str = << >> THEN r.st = "ok" /\ r.val = SliceOf(<< >>)
    ELSE /\ FailingParts = {} => r.st = "ok"
         /\ r.st = "ok" =>
               /\ Len(r.val.elts) = PartCount
               /\ \A i \in 1..PartCount : r.val.elts[i] = PartParsed(i).val

C11_SliceOfParts ==
    /\ \A c \in 1..Len(out) : ArgType.kind = "slice" => C11_Elements(out[c])
    /\ (out # << >> /\ arg.type = "[]string" /\ arg.str = <<",">>) =>
          out[1].val.elts = << << >>, << >> >>
    /\ (out # << >> /\ arg.type = "[]int" /\ arg.str = Chars("1, -2, 100, 3")) =>
          out[1].val.elts = <<1, 0 - 2, 100, 3>>

\* C11's case: a list with whitespace around its parts.
C11_Witness ==
    /\ out # << >>
    /\ arg.type = "[]int"
    /\ arg.str = Chars("1, -2, 100, 3")
    /\ out[1].st = "ok"
    /\ Len(out[1].val.elts) = 4

\* C12: when a part does not parse as the element type, ParseType into the
\* slice fails with the element error of the first such part: its index
\* counted from 0, then its cause; it returns no slice, and the parts after
\* it are not parsed, whatever parsing them would do.
C12_FirstFails(r, first) ==
    /\ r.st = "err"
    /\ r.err[1] = [msg |-> "Could not marshal element %d",
                   args |-> <<ToString(first - 1)>>]
    /\ Tail(r.err) = PartParsed(first).err
    /\ r.val = Nil

C12_ElementError ==
    /\ \A c \in 1..Len(out) :
          (/\ ArgType.kind = "slice"
           /\ arg.str # << >>
           /\ FailingParts # {}
           /\ PartParsed(Least(FailingParts)).st = "err") =>
              C12_FirstFails(out[c], Least(FailingParts))
    /\ (out # << >> /\ arg.type = "[]uint" /\ arg.str \in {Chars("1,2,"), <<",">>}) =>
          out[1].st = "err"
    /\ (out # << >> /\ arg.type = "[]main.Duration" /\ arg.str = Chars("x,1h")) =>
          /\ out[1].st = "err"
          /\ ParseType(Chars("1h"), "main.Duration").st = "panic"

\* C12's case: two parts fail, for different reasons, after one that parses.
C12_Witness ==
    /\ out # << >>
    /\ arg.type = "[]uint8"
    /\ arg.str = Chars("255,256,x")
    /\ out[1].st = "err"
    /\ Cardinality(FailingParts) = 2

\* A string of decimal digits, the same without its leading zeros, and the
\* order of two such numerals.
AllDigits(s) ==
    /\ s # << >>
    /\ \A i \in 1..Len(s) :
          s[i] \in {"0", "1", "2", "3", "4", "5", "6", "7", "8", "9"}

Canonical(s) ==
    SubSeq(s, Least({i \in 1..Len(s) : s[i] # "0" \/ i = Len(s)}), Len(s))

DigitAt(s, i) == CHOOSE d \in 0..9 : ToString(d) = s[i]

NumeralLeq(a, b) ==
    \/ Len(a) < Len(b)
    \/ /\ Len(a) = Len(b)
       /\ \/ a = b
          \/ \E i \in 1..Len(a) :
                /\ DigitAt(a, i) < DigitAt(b, i)
                /\ \A j \in 1..(i - 1) : a[j] = b[j]

\* The width of the integer type named t, and the ends of the ranges.
WidthOf(t) ==
    IF t \in {"uint8", "int8"} THEN 8
    ELSE IF t \in {"uint16", "int16"} THEN 16
    ELSE IF t \in {"uint32", "int32"} THEN 32
    ELSE 64

TopUint(w) ==
    IF w = 8 THEN Chars("255")
    ELSE IF w = 16 THEN Chars("65535")
    ELSE IF w = 32 THEN Chars("4294967295")
    ELSE Chars("18446744073709551615")

TopInt(w) ==
    IF w = 8 THEN Chars("127")
    ELSE IF w = 16 THEN Chars("32767")
    ELSE IF w = 32 THEN Chars("2147483647")
    ELSE Chars("9223372036854775807")

LowInt(w) ==
    IF w = 8 THEN Chars("128")
    ELSE IF w = 16 THEN Chars("32768")
    ELSE IF w = 32 THEN Chars("2147483648")
    ELSE Chars("9223372036854775808")

\* v is the integer the sign and the numeral c denote.
Denoted(neg, c, v) ==
    IF Len(c) > 9 THEN v = [neg |-> neg, dec |-> c]
    ELSE ToString(v) = (IF neg /\ c # <<"0">> THEN "-" ELSE "") \o Join(c)

\* C13: ParseType into uint8, uint16, uint32 or uint64 succeeds exactly for
\* the non-empty strings of decimal digits that denote an n <= 2^w - 1, with
\* the value n; it fails for every other string and never wraps.
C13_InRange(r, inRange) ==
    /\ r.st = "ok" <=> inRange
    /\ r.st = "ok" => Denoted(FALSE, Canonical(arg.str), r.val)
    /\ r.st # "ok" => r.st = "err" /\ r.val = 0

C13_UnsignedRange ==
    /\ \A c \in 1..Len(out) :
          arg.type \in {"uint8", "uint16", "uint32", "uint64"} =>
             C13_InRange(out[c],
                 /\ AllDigits(arg.str)
                 /\ NumeralLeq(Canonical(arg.str), TopUint(WidthOf(arg.type))))
    /\ (out # << >> /\ arg.type = "uint8" /\ arg.str = Chars("255")) =>
          out[1].val = 255
    /\ (out # << >> /\ arg.type = "uint8" /\ arg.str = Chars("256")) =>
          out[1].st = "err"

\* C13's case: 2^32 into uint32.
C13_Witness ==
    /\ out # << >>
    /\ arg.type = "uint32"
    /\ arg.str = Chars("4294967296")
    /\ out[1].st = "err"

\* C14: ParseType into int8, int16, int32 or int64 succeeds exactly for the
\* base-10 literals (an optional sign, then digits) that denote an n with
\* -2^(w-1) <= n <= 2^(w-1) - 1, with the value n; it fails for every other
\* string and never wraps.
IsLiteral(s) ==
    /\ s # << >>
    /\ AllDigits(IF s[1] \in {"+", "-"} THEN Tail(s) ELSE s)

C14_InRange(r, neg, body, w, literal) ==
    /\ r.st = "ok" <=>
          (literal /\ NumeralLeq(Canonical(body),
                                 IF neg THEN LowInt(w) ELSE TopInt(w)))
    /\ r.st = "ok" => Denoted(neg, Canonical(body), r.val)
    /\ r.st # "ok" => r.st = "err" /\ r.val = 0

C14_SignedRange ==
    /\ \A c \in 1..Len(out) :
          arg.type \in {"int8", "int16", "int32", "int64"} =>
             C14_InRange(out[c],
                 arg.str # << >> /\ arg.str[1] = "-",
                 IF arg.str # << >> /\ arg.str[1] \in {"+", "-"}
                 THEN Tail(arg.str) ELSE arg.str,
                 WidthOf(arg.type), IsLiteral(arg.str))
    /\ (out # << >> /\ arg.type = "int8" /\ arg.str = Chars("-128")) =>
          out[1].val = 0 - 128
    /\ (out # << >> /\ arg.type = "int8" /\
        arg.str \in {Chars("128"), Chars("-129"), Chars("123.0"), << >>}) =>
          out[1].st = "err"

\* C14's case: the least int64, and the literal below it is an input too.
C14_Witness ==
    /\ out # << >>
    /\ arg.type = "int64"
    /\ arg.str = Chars("-9223372036854775808")
    /\ out[1].st = "ok"
    /\ [str |-> Chars("-9223372036854775809"), type |-> "int64",
        keys |-> << >>] \in ParseArgs

\* The capital of a letter of the words below, and a string that is the
\* word w in any mix of cases.
CapitalOf(c) ==
    IF c = "t" THEN "T" ELSE IF c = "r" THEN "R" ELSE IF c = "u" THEN "U"
    ELSE IF c = "e" THEN "E" ELSE IF c = "f" THEN "F" ELSE IF c = "a" THEN "A"
    ELSE IF c = "l" THEN "L" ELSE IF c = "s" THEN "S" ELSE c

IsWord(s, w) ==
    /\ Len(s) = Len(w)
    /\ \A i \in 1..Len(w) : s[i] \in {w[i], CapitalOf(w[i])}

SaysTrue(s) == IsWord(s, Chars("true")) \/ IsWord(s, <<"t">>) \/ s = <<"1">>

SaysFalse(s) == IsWord(s, Chars("false")) \/ IsWord(s, <<"f">>) \/ s = <<"0">>

\* C15: ParseType into bool succeeds exactly for true, false, t, f, 1 and 0
\* in any mix of cases, with true for true, t and 1 and false for the
\* others; every other string fails with the format error.
C15_Bool(r) ==
    /\ r.st = "ok" <=> (SaysTrue(arg.str) \/ SaysFalse(arg.str))
    /\ r.st = "ok" => r.val = SaysTrue(arg.str)
    /\ r.st # "ok" =>
          /\ r.st = "err"
          /\ r.err[1].msg = "Cannot convert %s to a boolean value."
          /\ r.val = FALSE

C15_BoolWords ==
    /\ \A c \in 1..Len(out) : arg.type = "bool" => C15_Bool(out[c])
    /\ (out # << >> /\ arg.type = "bool" /\ arg.str = Chars("tRUE")) =>
          out[1].val = TRUE
    /\ (out # << >> /\ arg.type = "bool" /\ arg.str = Chars("FALSE")) =>
          out[1] = [st |-> "ok", val |-> FALSE, err |-> NoError, addr |-> 0]
    /\ (out # << >> /\ arg.type = "bool" /\
        arg.str \in {<< >>, Chars("yes"), Chars("no"), Chars("not_true")}) =>
          out[1].st = "err"

\* C15's case: a mix of cases that strconv.ParseBool itself does not take.
C15_Witness ==
    /\ out # << >>
    /\ arg.type = "bool"
    /\ arg.str = Chars("tRUE")
    /\ ~ParseBool(arg.str).ok
    /\ out[1].st = "ok"

\* The canonical string of an integer: its digits without sign + and without
\* leading zeros, after a - when it is below zero.
IsCanonicalInt(s) ==
    /\ IsLiteral(s)
    /\ s[1] # "+"
    /\ Canonical(s) = s
    /\ s[1] = "-" => (Canonical(Tail(s)) = Tail(s) /\ Tail(s) # <<"0">>)

\* The canonical strings of some durations of whole seconds, with the seconds.
SecondsForms ==
    {<<Chars("1s"), 1>>, <<Chars("5s"), 5>>, <<Chars("11s"), 11>>,
     <<Chars("15s"), 15>>, <<Chars("51s"), 51>>, <<Chars("55s"), 55>>}

C16_Scalar(r, s, t) ==
    /\ t = "string" => (r.st = "ok" /\ r.val = s)
    /\ (t = "bool" /\ s \in {Chars("true"), Chars("false")}) =>
          (r.st = "ok" /\ r.val = (s = Chars("true")))
    /\ (/\ t \in {"uint8", "uint16", "uint32", "uint64"}
        /\ AllDigits(s)
        /\ Canonical(s) = s
        /\ NumeralLeq(s, TopUint(WidthOf(t)))) =>
          (r.st = "ok" /\ Denoted(FALSE, s, r.val))
    /\ (/\ t \in {"int8", "int16", "int32", "int64"}
        /\ IsCanonicalInt(s)
        /\ s[1] # "-"
        /\ NumeralLeq(s, TopInt(WidthOf(t)))) =>
          (r.st = "ok" /\ Denoted(FALSE, s, r.val))
    /\ (/\ t \in {"int8", "int16", "int32", "int64"}
        /\ IsCanonicalInt(s)
        /\ s[1] = "-"
        /\ NumeralLeq(Tail(s), LowInt(WidthOf(t)))) =>
          (r.st = "ok" /\ Denoted(TRUE, Tail(s), r.val))
    /\ \A f \in SecondsForms :
          (t = "Duration" /\ s = f[1]) =>
             (r.st = "ok" /\ r.val = [neg |-> FALSE, sec |-> f[2], ns |-> 0])

\* C16: for the scalar kinds (string, boolean, the integer widths, duration)
\* ParseType is the left inverse of the canonical string form: the canonical
\* string of every value in range parses to that value, and every string
\* parsed into a string gives the string itself.
C16_RoundTrip ==
    \A c \in 1..Len(out) : C16_Scalar(out[c], arg.str, arg.type)

\* A duration literal without its sign, read as runs of digits each followed
\* by a run of other characters: where the runs of digits start and end,
\* where the run after them ends, and the number and the unit of a pair.
IsDig(s, i) == s[i] \in {"0", "1", "2", "3", "4", "5", "6", "7", "8", "9"}

RunStarts(s) == {i \in 1..Len(s) : IsDig(s, i) /\ (i = 1 \/ ~IsDig(s, i - 1))}

RunEnd(s, i) == Least({j \in i..Len(s) : j = Len(s) \/ ~IsDig(s, j + 1)})

UnitEnd(s, e) == Least({k \in e..Len(s) : k = Len(s) \/ IsDig(s, k + 1)})

UnitAfter(s, e) == SubSeq(s, e + 1, UnitEnd(s, e))

RECURSIVE NumberAt(_, _, _)
NumberAt(s, i, e) ==
    IF i > e THEN 0 ELSE NumberAt(s, i, e - 1) * 10 + DigitAt(s, e)

\* The seconds in a unit of a second or more, and the nanoseconds in a unit
\* below a second.
SecondsIn(u) ==
    IF u = <<"s">> THEN 1 ELSE IF u = <<"m">> THEN 60
    ELSE IF u = <<"h">> THEN 3600 ELSE 0

NanosIn(u) ==
    IF u = <<"n", "s">> THEN 1 ELSE IF u = <<"u", "s">> THEN 1000
    ELSE IF u = <<"m", "s">> THEN 1000000 ELSE 0

IsUnitName(u) == SecondsIn(u) + NanosIn(u) > 0

\* One or more pairs of a whole magnitude and a unit.
IsPairs(s) ==
    /\ s # << >>
    /\ IsDig(s, 1)
    /\ \A i \in RunStarts(s) : IsUnitName(UnitAfter(s, RunEnd(s, i)))

PairAmount(n, u) == <<n * SecondsIn(u), n * NanosIn(u)>>

RECURSIVE PairsTotal(_, _)
PairsTotal(s, starts) ==
    IF starts = {} THEN <<0, 0>>
    ELSE <<PairAmount(NumberAt(s, Least(starts), RunEnd(s, Least(starts))),
                      UnitAfter(s, RunEnd(s, Least(starts))))[1]
             + PairsTotal(s, starts \ {Least(starts)})[1],
           PairAmount(NumberAt(s, Least(starts), RunEnd(s, Least(starts))),
                      UnitAfter(s, RunEnd(s, Least(starts))))[2]
             + PairsTotal(s, starts \ {Least(starts)})[2]>>

SignedTotal(minus, total) ==
    [neg |-> minus /\ total # <<0, 0>>,
     sec |-> total[1] + (total[2] \div 1000000000),
     ns  |-> total[2] % 1000000000]

Unsigned(s) == IF s # << >> /\ s[1] \in {"+", "-"} THEN Tail(s) ELSE s

HasPoint(s) == \E i \in 1..Len(s) : s[i] = "."

\* Some literals with the durations they are to denote.
DurationTable ==
    {<<Chars("12m"), [neg |-> FALSE, sec |-> 720, ns |-> 0]>>,
     <<Chars("1h2m200us"), [neg |-> FALSE, sec |-> 3720, ns |-> 200000]>>,
     <<Chars("-1h30m"), [neg |-> TRUE, sec |-> 5400, ns |-> 0]>>,
     <<Chars("1.5h"), [neg |-> FALSE, sec |-> 5400, ns |-> 0]>>,
     <<Chars("1h2m0.0002s"), [neg |-> FALSE, sec |-> 3720, ns |-> 200000]>>}

NotDurations ==
    {<< >>, Chars("s"), Chars("h3ms"), Chars("30min"), Chars("2 hours"),
     Chars("1h-30m10s"), Chars("5"), Chars("15"), Chars("-5"), Chars("--1h")}

\* C17: ParseType into time.Duration reads the grammar of duration literals:
\* an optional sign and one or more pairs of a magnitude and a unit of ns,
\* us, ms, s, m, h give the signed sum of the pairs; an empty string, a unit
\* without magnitude, an unknown unit, a sign after the first pair and a
\* bare integer fail (but for "0", the zero duration of the grammar).
C17_Literal(r, s, body) ==
    /\ ~HasPoint(s) =>
          /\ r.st = "ok" <=> (IsPairs(body) \/ body = <<"0">>)
          /\ IsPairs(body) =>
                r.val = SignedTotal(s[1] = "-",
                                    PairsTotal(body, RunStarts(body)))
          /\ body = <<"0">> => r.val = [neg |-> FALSE, sec |-> 0, ns |-> 0]
    /\ \A d \in DurationTable : s = d[1] => (r.st = "ok" /\ r.val = d[2])
    /\ s \in NotDurations => r.st = "err"
    /\ r.st # "ok" =>
          /\ r.st = "err"
          /\ r.err[1].msg = "Could not parse duration \"%s\""
          /\ r.val = [neg |-> FALSE, sec |-> 0, ns |-> 0]

C17_DurationGrammar ==
    \A c \in 1..Len(out) :
        arg.type = "Duration" => C17_Literal(out[c], arg.str, Unsigned(arg.str))

\* C17's case: a literal of three pairs with a unit below a second.
C17_Witness ==
    /\ out # << >>
    /\ arg.type = "Duration"
    /\ arg.str = Chars("1h2m200us")
    /\ Cardinality(RunStarts(arg.str)) = 3
    /\ out[1].st = "ok"
    /\ out[1].val.ns = 200000

\* C18: ParseType into *T succeeds exactly when ParseType of the same string
\* into T does; it then returns a pointer that is not nil, to a cell made by
\* this call that holds the value parsed into T (no two calls return the
\* same cell, none returns a cell of the caller); when the parse into T
\* fails, the error is that of T and no pointer is returned.
C18_Pointer(r, inner, c) ==
    /\ r.st = "ok" <=> inner.st = "ok"
    /\ inner.st = "ok" =>
          /\ r.val = [nil |-> FALSE, elem |-> inner.val]
          /\ r.addr \in (Len(CallerHeap) + 1)..Len(heap)
          /\ heap[r.addr] = inner.val
          /\ \A b \in 1..Len(out) : b # c => out[b].addr # r.addr
    /\ inner.st # "ok" =>
          /\ r.st = inner.st
          /\ r.err = inner.err
          /\ r.err # << >>
          /\ r.val = [nil |-> TRUE]
          /\ r.addr = 0

C18_FreshPointer ==
    /\ \A c \in 1..Len(out) :
          ArgType.kind = "ptr" =>
             C18_Pointer(out[c], ParseType(arg.str, ArgType.elem), c)
    /\ ArgType.kind = "ptr" =>
          /\ Len(heap) = Len(CallerHeap) +
                Cardinality({c \in 1..Len(out) : out[c].st = "ok"})
          /\ SubSeq(heap, 1, Len(CallerHeap)) = CallerHeap

\* C18's case: two parses of "255" into *uint8, each with a cell of its own.
C18_Witness ==
    /\ Len(out) = 2
    /\ arg.type = "*uint8"
    /\ arg.str = Chars("255")
    /\ out[1].val = out[2].val
    /\ out[1].addr # out[2].addr
    /\ heap[out[2].addr] = 255

\* The kinds ParseType has a rule for, and the types it has none for.
RuledKinds ==
    {"ptr", "string", "bool", "slice", "array", "float32", "float64",
     "uint", "uint8", "uint16", "uint32", "uint64",
     "int", "int8", "int16", "int32", "int64"}

IsUnsupported(t) ==
    /\ t \in DOMAIN TypeTable
    /\ TypeTable[t].name # "Duration"
    /\ TypeTable[t].kind \notin RuledKinds

UnsupportedError(t) ==
    [msg |-> "Cannot unmarshal objects of type %s",
     args |-> <<TypeTable[t].name>>]

\* C19: ParseType fails with the unsupported-type error, whatever the
\* string, for a type that is no duration, pointer, string, boolean,
\* integer, float or sequence; so does ParseType into a pointer to such a
\* type and, for a string that is not empty, into a sequence of such a type,
\* where the error comes up through the enclosing parse.
C19_Fails(r, T) ==
    /\ IsUnsupported(arg.type) =>
          /\ r.st = "err"
          /\ r.err = <<UnsupportedError(arg.type)>>
    /\ (T.kind = "ptr" /\ IsUnsupported(T.elem)) =>
          /\ r.st = "err"
          /\ r.err = <<UnsupportedError(T.elem)>>
          /\ r.val = [nil |-> TRUE]
    /\ (T.kind = "slice" /\ IsUnsupported(T.elem) /\ arg.str # << >>) =>
          /\ r.st = "err"
          /\ r.err = <<[msg |-> "Could not marshal element %d",
                        args |-> <<"0">>],
                       UnsupportedError(T.elem)>>
    /\ (T.kind = "slice" /\ IsUnsupported(T.elem) /\ arg.str = << >>) =>
          /\ r.st = "ok"
          /\ r.val = [nil |-> FALSE, elts |-> << >>]

C19_UnsupportedType == \A c \in 1..Len(out) : C19_Fails(out[c], ArgType)

\* C19's case: a sequence of maps, the failure coming up from its element.
C19_Witness ==
    /\ out # << >>
    /\ arg.type = "[]map[string]string"
    /\ arg.str = Chars("1,a")
    /\ out[1].st = "err"
    /\ Len(out[1].err) = 2

\* A key the environment does not hold.
IsUnset(key) == key \notin DOMAIN env

\* C20: HasKeys(keys) returns (all_found, missing) where missing is the keys
\* that LookupEnv does not find, in the order of keys and as often as they
\* are in keys, and all_found says that missing is empty; no keys give
\* (true, empty), and a key set to the empty string is found.
C20_Missing(r, keys) ==
    /\ r.missing = SelectSeq(keys, IsUnset)
    /\ \A k \in KeyNames :
          Cardinality({i \in 1..Len(r.missing) : r.missing[i] = k}) =
             IF LookupEnv(env, k).ok THEN 0
             ELSE Cardinality({i \in 1..Len(keys) : keys[i] = k})
    /\ r.ok <=> r.missing = << >>
    /\ r.ok <=> \A i \in 1..Len(keys) : LookupEnv(env, keys[i]).ok
    /\ keys = << >> => r = [ok |-> TRUE, missing |-> << >>]
    /\ \A i \in 1..Len(keys) :
          (keys[i] \in DOMAIN env /\ env[keys[i]] = << >>) =>
             \A j \in 1..Len(r.missing) : r.missing[j] # keys[i]

C20_HasKeys == \A c \in 1..Len(out) : C20_Missing(out[c], arg.keys)

\* C20's case: a key asked for twice and missing, between them a key set to
\* the empty string.
C20_Witness ==
    /\ out # << >>
    /\ arg.keys = <<"A", "B", "A">>
    /\ "A" \notin DOMAIN env
    /\ "B" \in DOMAIN env
    /\ env["B"] = << >>
    /\ out[1] = [ok |-> FALSE, missing |-> <<"A", "A">>]

\* C21: the sequence rule of ParseType holds for arrays as for slices:
\* ParseType into an array type such as [3]int returns the array or an
\* error, whatever the string; it never ends abnormally.
C21_ArrayNoAbort ==
    \A c \in 1..Len(out) :
        ArgType.kind \in {"array", "slice"} => out[c].st \in {"ok", "err"}

StructMsg == "cannot unmarshal %s to type %s"

\* p is the start of the key, and not all of it.
IsKeyPrefix(p, key) == Len(p) < Len(key) /\ SubSeq(key, 1, Len(p)) = p

\* What failed at the leaf: the key that is not set, or the value that does
\* not parse with the error of the parser under it.
LeafCause(leaf) ==
    IF LeafMissing(leaf)
    THEN <<[msg |-> MissingKeyMsg, args |-> <<leaf.key>>]>>
    ELSE <<[msg |-> ParseFailMsg,
            args |-> <<Join(env[leaf.key]), TypeTable[leaf.type].name,
                       leaf.key>>]>>
         \o ParseType(env[leaf.key], leaf.type).err

\* C22: the error of a walk that failed at a leaf d structs down holds what
\* every level added around the cause: from the cause outwards the name of
\* the leaf's field and of each of the d fields around it, between them the
\* layer of the struct entered, and under them the leaf's composed key with
\* the cause as the parser or the lookup gave it; the leaf is looked up and
\* parsed once.
C22_Context(err, leaf, d) ==
    /\ Len(err) = 2 * d + 1 + Len(LeafCause(leaf))
    /\ \A i \in 1..(d + 1) :
          err[2 * i - 1] = [msg |-> FieldMsg, args |-> <<leaf.path[i]>>]
    /\ \A i \in 1..d :
          /\ err[2 * i].msg = StructMsg
          /\ IsKeyPrefix(err[2 * i].args[1], leaf.key)
    /\ SubSeq(err, 2 * d + 2, Len(err)) = LeafCause(leaf)
    /\ NamesKey(err, leaf.key)
    /\ Cardinality({i \in 1..Len(trace.lookups) :
                       trace.lookups[i] = leaf.key}) = 1
    /\ trace.lookups[Len(trace.lookups)] = leaf.key
    /\ Len(trace.parses) =
          Len(trace.lookups) - (IF LeafMissing(leaf) THEN 1 ELSE 0)
    /\ ~LeafMissing(leaf) =>
          trace.parses[Len(trace.parses)] =
             [str |-> env[leaf.key], type |-> leaf.type]

C22_Failing(L, bad) ==
    /\ bad # {}
    /\ C22_Context(ret.err, L[Least(bad)], Len(L[Least(bad)].path) - 1)

C22_ErrorContext ==
    (Walked /\ ret.st = "err") =>
        C22_Failing(LeavesOf(target.type), BadLeaves(LeavesOf(target.type)))

\* C22's case: a uint two structs down does not parse.
C22_Witness ==
    /\ Walked /\ call.byPtr
    /\ target.type = "DeepObj"
    /\ "DEEP_NESTED_OBJ1_B" \in DOMAIN env
    /\ env["DEEP_NESTED_OBJ1_B"] = Str_neg14
    /\ ret.st = "err"
    /\ FieldPath(ret.err) = <<"N", "A", "B">>
    /\ ret.err[Len(ret.err)].msg = "strconv.ParseUint: invalid syntax"

\* The composed keys of the tagged fields that are structs or pointers to
\* structs, in the types walked.
\* The composed keys of the fields of the struct targets whose type or
\* pointee type is a struct: those of the structs named Time, and the others.
StructFieldKeys ==
    {"NESTED_", "NESTED_OBJ2_", "DEEP_", "DEEP_NESTED_", "DB_", "LOG_"}

TimeFieldKeys == {"TIMED_AT", "STAMP_", "LOG_TIMED_AT"}

C23_Reads(L, bad, lookups) ==
    /\ Len(lookups) = IF bad = {} THEN Len(L) ELSE Least(bad)
    /\ \A i \in 1..Len(lookups) :
          /\ lookups[i] = L[i].key
          /\ lookups[i] \notin StructFieldKeys
          /\ lookups[i] \in TimeFieldKeys <=> TypeTable[L[i].type].name = "Time"
          /\ \A j \in 1..Len(lookups) : lookups[j] = lookups[i] => j = i

C23_Walk(t) ==
    (/\ call'.op = "Unmarshal"
     /\ TypeTable[t].kind = "struct"
     /\ ~implementsUnmarshal(t)) =>
        /\ C23_Reads(LeavesOf(t), BadLeaves(LeavesOf(t)), trace'.lookups)
        /\ trace'.hookLookups = << >>
        /\ env' = env
        /\ <<arg, out, heap>>' = <<arg, out, heap>>
        /\ ret'.st # "ok" => target' = target
        /\ target'.type = t

LeafEmpty(leaf) == leaf.key \in DOMAIN env /\ env[leaf.key] = << >>

IsMissingLayer(layer) == layer.msg = MissingKeyMsg

\* C24: a key set to the empty string is found: LookupEnv gives ("", true)
\* for it and false for the keys that are not set only; the walk hands ""
\* to the parser and reports no missing key for it, so that a string field
\* is "", a sequence field is the sequence without elements, and a number, a
\* boolean or a duration fails with the error of its format.
C24_Leaf(leaf, i, T) ==
    /\ LookupEnv(env, leaf.key) = [val |-> << >>, ok |-> TRUE]
    /\ trace.parses[i] = [str |-> << >>, type |-> leaf.type]
    /\ \A j \in 1..Len(ret.err) :
          ret.err[j] # [msg |-> MissingKeyMsg, args |-> <<leaf.key>>]
    /\ T.kind \in {"string", "slice"} =>
          ~(ret.st = "err" /\ i = Len(trace.lookups))
    /\ (T.kind \in UintKinds \cup IntKinds \cup {"bool"} \/ T.name = "Duration") =>
          /\ i = Len(trace.lookups)
          /\ ret.st = "err"
          /\ SelectSeq(ret.err, IsMissingLayer) = << >>
          /\ \E j \in 1..Len(ret.err) :
                /\ ret.err[j].msg = ParseFailMsg
                /\ ret.err[j].args = <<"", T.name, leaf.key>>
                /\ j < Len(ret.err)

C24_Leaves(L) ==
    /\ \A i \in 1..Len(trace.lookups) :
          LeafEmpty(L[i]) => C24_Leaf(L[i], i, TypeTable[L[i].type])
    /\ \A i \in 1..Len(L) :
          LookupEnv(env, L[i].key).ok <=> L[i].key \in DOMAIN env
    /\ (target.type = "Obj1" /\ ret.st = "ok" /\ call.byPtr) =>
          /\ LeafEmpty(L[1]) => target.val[1] = << >>
          /\ LeafEmpty(L[4]) =>
                target.val[4] = [nil |-> FALSE, elts |-> << >>]

C24_EmptyIsFound == Walked => C24_Leaves(LeavesOf(target.type))

\* C24's case: Obj1 with the keys of the string and of the sequence both set
\* to the empty string, over an object that held other values.
C24_Witness ==
    /\ Walked /\ call.byPtr
    /\ target.type = "Obj1"
    /\ pre = Filled("Obj1")
    /\ ret.st = "ok"
    /\ env["OBJ1_A"] = << >>
    /\ env["OBJ1_D"] = << >>
    /\ target.val[1] = << >>

\* The instance of type t that the environment alone determines: zero in
\* the fields without tag, the value parsed from the composed key in the
\* others, structs built the same way under their tag as prefix.
RECURSIVE Fresh(_, _)
FreshBase(base, B, key) ==
    IF B.kind = "struct" /\ B.name # "Time" THEN Fresh(base, key)
    ELSE ParseType(env[key], base).val

FreshField(f, FT, key) ==
    IF f.tag = "" THEN Zero(f.type)
    ELSE IF FT.kind = "ptr"
    THEN [nil |-> FALSE, elem |-> FreshBase(FT.elem, TypeTable[FT.elem], key)]
    ELSE FreshBase(f.type, FT, key)

Fresh(t, prefix) ==
    [i \in 1..Len(TypeTable[t].fields) |->
        FreshField(TypeTable[t].fields[i],
                   TypeTable[TypeTable[t].fields[i].type],
                   prefix \o TypeTable[t].fields[i].tag)]

\* C25: a walk that succeeds puts a new instance in place of the whole
\* object: whatever the object held, its fields without tag are zero and
\* the others hold what was parsed, so the object is a function of the type
\* and the environment, and a second walk leaves it as the first made it.
C25_Replaced(t) ==
    (/\ call'.op = "Unmarshal"
     /\ call'.byPtr
     /\ TypeTable[t].kind = "struct"
     /\ ~implementsUnmarshal(t)
     /\ ret'.st = "ok") =>
        /\ target'.val = Fresh(t, "")
        /\ t = "Obj2" => target'.val[2] = 0
        /\ t = "UntaggedObj" =>
              /\ target'.val[1] = [nil |-> TRUE]
              /\ target'.val[3] = Zero("Obj1")
              /\ target'.val[4] = [nil |-> TRUE]
        /\ (call.op = "Unmarshal" /\ call.byPtr /\ ret.st = "ok") =>
              target' = target

C25_WholeTargetReplaced == [][C25_Replaced(target.type)]_vars

\* C25's case: the fields without tag of the object held values, and are
\* zero after the walk.
C25_Witness ==
    /\ Walked /\ call.byPtr
    /\ target.type = "UntaggedObj"
    /\ pre = Filled("UntaggedObj")
    /\ ret.st = "ok"
    /\ pre[3] # Zero("Obj1")
    /\ target.val[3] = Zero("Obj1")

\* C26: for a type with the UnmarshalEnv method, the method works on the
\* caller's own object and Unmarshal takes no copy of it and puts nothing
\* back: what the method assigned before it returned an error stays in the
\* object, beside the fields it did not touch; the walk's promise of an
\* object unchanged on failure does not hold for these types.
C26_OnObject(t) ==
    /\ target.val = UnmarshalEnv(TypeTable[t].hook, pre, env).val
    /\ trace.writes = 0
    /\ (t = "EagerObj" /\ "EAGER_B" \notin DOMAIN env) =>
          /\ ret.st = "err"
          /\ target.val[1] = 3
          /\ target.val[2] = pre[2]
    /\ (t = "EagerObj" /\ pre[1] # 3 /\ ret.st = "err") => target.val # pre
    /\ (t = "EnvMarshalerObj1" /\ ret.st = "err") => target.val = pre

C26_HookMutatesInPlace ==
    (/\ call.op = "Unmarshal"
     /\ call.byPtr
     /\ implementsUnmarshal(target.type)) => C26_OnObject(target.type)

\* C26's case: the method failed after it had assigned A, on an object whose
\* fields held other values.
C26_Witness ==
    /\ call.op = "Unmarshal" /\ call.byPtr
    /\ target.type = "EagerObj"
    /\ pre = Filled("EagerObj")
    /\ ret.st = "err"
    /\ target.val = <<3, pre[2]>>
    /\ pre[2] # << >>

\* The struct types the tagged fields of t lead to, the types reached from a
\* set of types in n steps, and the types none of whose paths comes back.
StructTypes == {t \in DOMAIN TypeTable : TypeTable[t].kind = "struct"}

StructEdges(t) ==
    {BaseOf(TypeTable[t].fields[i]) : i \in
        {j \in 1..Len(TypeTable[t].fields) :
            /\ TypeTable[t].fields[j].tag # ""
            /\ BaseOf(TypeTable[t].fields[j]) \in StructTypes
            /\ TypeTable[BaseOf(TypeTable[t].fields[j])].name # "Time"}}

RECURSIVE Reached(_, _)
Reached(S, n) ==
    IF n = 0 THEN S
    ELSE Reached(S \cup UNION {StructEdges(u) : u \in S}, n - 1)

Below(t) == Reached(StructEdges(t), Cardinality(StructTypes))

IsAcyclic(t) == \A u \in {t} \cup Below(t) : u \notin Below(u)

\* The number of structs on the longest way down from t, t itself counted.
RECURSIVE NestingDepth(_)
DeepestOf(S) == CHOOSE n \in S : \A m \in S : m <= n

NestingDepth(t) ==
    1 + DeepestOf({0} \cup {NestingDepth(u) : u \in StructEdges(t)})

Finished == call.op = "returned" /\ ret.st \in {"ok", "err"} /\ out = << >>

\* C27: for a type whose tagged struct and pointer-to-struct fields lead
\* back to no type on the way, Unmarshal returns, with a value or with an
\* error, whatever the environment holds; never more calls of
\* unmarshalStruct are open than structs are nested in the type; and it
\* returns what the walk as a whole is to return.
C27_Bounded(t) ==
    /\ Len(out) <= NestingDepth(t)
    /\ Finished =>
          /\ ret.st = unmarshalStruct(env, t, "").st
          /\ ret.err = unmarshalStruct(env, t, "").err
          /\ trace.lookups = unmarshalStruct(env, t, "").lookups

C27_Terminates ==
    /\ [](IsAcyclic(target.type) => C27_Bounded(target.type))
    /\ IsAcyclic(target.type) ~> Finished

\* C27's case: the walk of the type nested deepest has returned after all
\* its leaves.
C27_Witness ==
    /\ Finished
    /\ target.type = "DeepObj"
    /\ NestingDepth("DeepObj") = 3
    /\ ret.st = "ok"
    /\ Len(trace.lookups) = Len(LeavesOf("DeepObj"))

\* The fields of the struct targets whose type, or pointee type, is named
\* Time: the key composed for the field, the type, and the keys of the leaves
\* declared before it.
TimeFields ==
    ("TimedObj" :> [key |-> "TIMED_AT", type |-> "Time",
                    before |-> <<"TIMED_NAME">>]) @@
    ("StampedObj" :> [key |-> "STAMP_", type |-> "main.Time",
                      before |-> << >>]) @@
    ("LoggedObj" :> [key |-> "LOG_TIMED_AT", type |-> "Time",
                     before |-> <<"LOG_TIMED_NAME">>])

\* The call got as far as the field: the leaves before it are set (they are
\* strings, which always parse).
ReachesTime(f) == \A i \in 1..Len(f.before) : f.before[i] \in DOMAIN env

BelowKey(key, k) ==
    /\ Len(k) > Len(key)
    /\ \A i \in 1..Len(key) : k[i] = key[i]

\* The call fails whatever the environment holds; nothing is looked up
\* under the field's key; and when the call gets to the field it looks up
\* the field's own key, fails with the missing key when it is not set, and
\* else hands the value to the parser, which rejects the type.
C28_Time(f) ==
    /\ ret.st = "err"
    /\ target.val = pre
    /\ \A i \in 1..Len(trace.lookups) :
          ~BelowKey(Chars(f.key), Chars(trace.lookups[i]))
    /\ ReachesTime(f) =>
          /\ trace.lookups = f.before \o <<f.key>>
          /\ f.key \notin DOMAIN env =>
                /\ ret.err[Len(ret.err)] =
                      [msg |-> MissingKeyMsg, args |-> <<f.key>>]
                /\ Len(trace.parses) = Len(f.before)
          /\ f.key \in DOMAIN env =>
                /\ SubSeq(ret.err, Len(ret.err) - 1, Len(ret.err)) =
                      <<[msg |-> ParseFailMsg,
                         args |-> <<Join(env[f.key]), "Time", f.key>>],
                        [msg |-> "Cannot unmarshal objects of type %s",
                         args |-> <<"Time">>]>>
                /\ trace.parses[Len(trace.parses)] =
                      [str |-> env[f.key], type |-> f.type]

\* The types named Duration, by kind: time.Duration itself, an int64 and a
\* string of the caller's.
DurationNamed == {"Duration", "main.Duration", "text.Duration"}

\* parser.Unmarshal(str, &obj) into a type named Duration: a string that is
\* no duration literal fails as one, though it is a fine string or integer;
\* a literal gives the duration to time.Duration, and cannot be set into
\* another type of that name.
C28_Duration(t, str) ==
    /\ ~IsPairs(Unsigned(str)) =>
          /\ ret.st = "err"
          /\ ret.err[1] = [msg |-> "Could not parse duration \"%s\"",
                           args |-> <<Join(str)>>]
          /\ target.val = pre
    /\ IsPairs(Unsigned(str)) =>
          /\ t = "Duration" =>
                /\ ret.st = "ok"
                /\ target.val = SignedTotal(str[1] = "-",
                                    PairsTotal(Unsigned(str),
                                               RunStarts(Unsigned(str))))
          /\ t # "Duration" => ret.st = "panic"

\* C28: a tagged field whose type or pointee type is named Time is not
\* walked as a struct: its own composed key is looked up and its value
\* handed to the parser, so Unmarshal fails for every environment, with the
\* missing key or with the unsupported type; and a type named Duration is
\* parsed as a duration literal whatever its kind.
C28_ByName ==
    /\ (Walked /\ target.type \in DOMAIN TimeFields) =>
          C28_Time(TimeFields[target.type])
    /\ (call.op = "Parse" /\ call.byPtr /\ target.type \in DurationNamed) =>
          C28_Duration(target.type, call.str)

\* C28's case: the value of the pointer field to a struct named Time was
\* handed to the parser, with a key set under the field's key.
C28_Witness ==
    /\ Walked /\ call.byPtr
    /\ target.type = "StampedObj"
    /\ ret.st = "err"
    /\ "STAMP_SEC" \in DOMAIN env
    /\ trace.lookups = <<"STAMP_">>
    /\ trace.parses = <<[str |-> Str_12m, type |-> "main.Time"]>>

====
